---- MODULE Spec2Model ----
(***************************************************************************)
(* A model of the arbitrary-precision integer library of src/Integer.h:    *)
(* class UnsignedInteger (a little-endian array of base-B limbs with a     *)
(* logical length) and class SignedInteger (a magnitude and a sign flag).  *)
(*                                                                         *)
(* An UnsignedInteger is modelled by the sequence of its limbs             *)
(* digits[0 .. length-1], least significant first; Len of the sequence is  *)
(* the field `length`.  The C++ arrays are 0-based: At(d, i) is digits[i]. *)
(*                                                                         *)
(* Scale.  TLC's integers are 32 bits wide, so the limb base and the       *)
(* machine words are scaled down together: Base is 10^2 instead of 10^8    *)
(* (one limb holds 2 decimal digits instead of 8, printed as two chunks of *)
(* 1 digit instead of two chunks of 4), std::uint32_t wraps at 2^12        *)
(* instead of 2^32 and std::uint64_t at 2^24 instead of 2^64.  The ratios  *)
(* the code relies on (2*Base < uint32 range, 10*Base*Base < uint64 range) *)
(* are kept.  The limb-count threshold that selects the transform          *)
(* multiplication and the Newton division is 6 limbs instead of 64 (the    *)
(* smallest value for which computeInverse's recursion still descends to   *)
(* its base case), so that operands of a few limbs reach those paths.      *)
(* The validity checks are compiled in (ENABLE_VALIDITY_CHECK).            *)
(***************************************************************************)
EXTENDS Integers, Sequences, FiniteSets, TLC

\* ------------------------------------------------------------- constants
\* UnsignedInteger::Base (scaled: 10^2 for 10^8).
Base == 100
\* Range of std::uint32_t (scaled: 2^12 for 2^32).
Wrap32 == 4096
\* Range of std::uint64_t (scaled: 2^24 for 2^64).
Wrap64 == 16777216
\* UnsignedInteger::BruteforceThreshold, in limbs (scaled: 6 for 64).
BruteforceThreshold == 6
\* BlockSize of reverseCompare, in limbs (not scaled).
BlockSize == 64
\* Decimal digits held by one limb (8 in the source, where Base is 10^8).
DigitsPerLimb == 2
\* The chunk the text conversions split a limb by (10000 in the source).
HalfBase == 10
\* Ranges of the 8-bit and 16-bit native types (scaled: 2^2 for 2^8, which
\* divides Base as 2^8 divides 10^8, and 2^6 for 2^16, which is below Base
\* and does not divide it, as 2^16 and 10^8).
Wrap8 == 4
Wrap16 == 64
\* UnsignedInteger::TransformLimit, in limbs (scaled: 24 for 4194304).
TransformLimit == 24

\* ---------------------------------------------------------------- bounds
\* Longest operand, in limbs, of the short inputs.
MaxLen == 2
\* Longest sequence of operations of a run.
MaxSteps == 2
\* The longest dividend and divisor of the division runs, in limbs.
MaxDividendLen == 9
MaxDivisorLen == 7
\* Longest factor, in limbs, of the multiplication runs.
MaxFactorLen == 7
\* Longest text, in characters, of the text runs.
MaxTextLen == 5
\* Longest value, in limbs, converted to a native integer.
MaxConvertLen == 4
\* Most whole blocks of reverseCompare, in a compared operand.
MaxBlocks == 2
\* Reciprocals: the longest operand and the precisions tried past the least.
MaxInverseLen == 8
MaxExtraPrecision == 6
\* Threads of a run, and operations they perform in all.
NumThreads == 2
MaxThreadOps == 3
\* Lines the driver reads from standard input.
MaxLines == 2
\* Transform lengths up to 2^MaxTransformLog, and resize calls of a run.
MaxTransformLog == 5
MaxResizes == 3
\* Operations on the object whose limb array a run follows.
MaxCalls == 2

\* --------------------------------------------------------------- helpers
U32(x) == x % Wrap32
U64(x) == x % Wrap64
\* static_cast<std::int32_t> of a std::uint32_t.
ToInt32(x) == IF U32(x) >= Wrap32 \div 2 THEN U32(x) - Wrap32 ELSE U32(x)
\* C++ integer division and remainder truncate toward zero.
Magnitude(x) == IF x < 0 THEN -x ELSE x
TruncDiv(x, y) ==
    IF (x < 0) = (y < 0) THEN Magnitude(x) \div Magnitude(y) ELSE -(Magnitude(x) \div Magnitude(y))
TruncMod(x, y) == x - y * TruncDiv(x, y)

At(d, i) == d[i + 1]
Put(d, i, v) == [d EXCEPT ![i + 1] = v]
\* A loop is a recursive operator whose arguments are the loop's variables.
\* TLC computes an argument when it is first read, so a variable that the
\* loop condition does not read would be left as an ever longer chain of
\* pending updates; Sequenced(state, rest) reads it before going on, which
\* computes the variables iteration by iteration as the program does.
Sequenced(state, rest) == CASE state = state -> rest

\* n zero limbs (std::memset of n limbs).
RECURSIVE Zeros(_)
Zeros(n) == IF n <= 0 THEN <<>> ELSE Append(Zeros(n - 1), 0)

\* The integer a limb sequence represents: sum of d[i] * Base^i.
RECURSIVE Value(_)
Value(d) == IF Len(d) = 0 THEN 0 ELSE d[1] + Base * Value(Tail(d))

\* The loop `for (; length > 1 && !digits[length - 1]; --length);`.
RECURSIVE Trim(_)
Trim(d) == IF Len(d) > 1 /\ d[Len(d)] = 0 THEN Trim(SubSeq(d, 1, Len(d) - 1)) ELSE d

\* Canonical form of the data model: length >= 1, top limb non-zero unless
\* the length is 1, every limb in [0, Base).
TopNonZero(d) == Len(d) >= 1 /\ (Len(d) > 1 => d[Len(d)] # 0)
LimbsInRange(d) == \A i \in 1..Len(d) : d[i] >= 0 /\ d[i] < Base
Canonical(d) == TopNonZero(d) /\ LimbsInRange(d)

\* UnsignedInteger::operator bool.
Bool(d) == Len(d) # 1 \/ At(d, 0) # 0

\* ------------------------------------------------------------ comparison
\* One block [lo, hi): std::memcmp finds whether the operands differ in it,
\* and the loop from its top downward stops at the highest limb that does.
Differing(a, b, lo, hi) == {i \in lo..(hi - 1) : At(a, i) # At(b, i)}
Highest(indices) == CHOOSE i \in indices : \A j \in indices : j <= i
LimbDifference(a, b, i) == ToInt32(At(a, i) - At(b, i))
ScanBlock(a, b, lo, hi) ==
    IF Differing(a, b, lo, hi) = {} THEN 0
    ELSE LimbDifference(a, b, Highest(Differing(a, b, lo, hi)))

RECURSIVE CompareBlocks(_, _, _)
CompareBlocks(a, b, first) ==
    IF first = 0 THEN 0
    ELSE LET r == ScanBlock(a, b, first - BlockSize, first)
         IN IF r # 0 THEN r ELSE CompareBlocks(a, b, first - BlockSize)

\* Mutant of reverseCompare: the loop over the whole blocks is left out.
reverseCompareTopBlock(a, b) ==
    ScanBlock(a, b, Len(a) - (Len(a) % BlockSize), Len(a))

\* UnsignedInteger::reverseCompare; the caller made the lengths equal.
reverseCompare(a, b) ==
    LET remaining == Len(a) % BlockSize
        first == Len(a) - remaining
        r == ScanBlock(a, b, first, first + remaining)
    IN IF r # 0 THEN r ELSE CompareBlocks(a, b, first)

Equal(a, b) == Len(a) = Len(b) /\ \A i \in 1..Len(a) : a[i] = b[i]
Less(a, b) == Len(a) < Len(b) \/ (Len(a) = Len(b) /\ reverseCompare(a, b) < 0)
Greater(a, b) == Len(a) > Len(b) \/ (Len(a) = Len(b) /\ reverseCompare(a, b) > 0)
GreaterEq(a, b) == Len(a) > Len(b) \/ (Len(a) = Len(b) /\ reverseCompare(a, b) >= 0)
LessEq(a, b) == Len(a) < Len(b) \/ (Len(a) = Len(b) /\ reverseCompare(a, b) <= 0)
NotEqual(a, b) == ~Equal(a, b)

\* --------------------------------------------------------------- addition
\* First loop of operator+=: add other's limbs, carrying into the next limb.
RECURSIVE AddLimbs(_, _, _)
AddLimbs(d, other, i) ==
    IF i = Len(other) THEN d
    ELSE LET s == U32(At(d, i) + At(other, i))
         IN IF s >= Base
            THEN AddLimbs(Put(Put(d, i, U32(s - Base)), i + 1, U32(At(d, i + 1) + 1)), other, i + 1)
            ELSE AddLimbs(Put(d, i, s), other, i + 1)

\* Second loop of operator+= (and the loop of operator++): propagate the
\* carry while the limb is not the top one (thisEnd = digits + length - 1).
RECURSIVE CarryUp(_, _)
CarryUp(d, i) ==
    IF i # Len(d) - 1 /\ At(d, i) >= Base
    THEN CarryUp(Put(Put(d, i, U32(At(d, i) - Base)), i + 1, U32(At(d, i + 1) + 1)), i + 1)
    ELSE d

\* UnsignedInteger::operator+=.
AddAssign(a, other) ==
    LET grown == IF Len(a) <= Len(other)
                 THEN a \o Zeros(Len(other) + 1 - Len(a))
                 ELSE a
    IN Trim(CarryUp(AddLimbs(grown, other, 0), Len(other)))

\* The index at which the loop of operator++ / operator-- stops.
RECURSIVE CarryStop(_, _)
CarryStop(d, i) ==
    IF i # Len(d) - 1 /\ At(d, i) >= Base
    THEN CarryStop(Put(Put(d, i, U32(At(d, i) - Base)), i + 1, U32(At(d, i + 1) + 1)), i + 1)
    ELSE i

\* UnsignedInteger::operator++.
Increment(a) ==
    LET bumped == Put(a, 0, U32(At(a, 0) + 1))
        d == CarryUp(bumped, 0)
        stop == CarryStop(bumped, 0)
    IN IF stop = Len(a) - 1 /\ At(d, stop) >= Base
       THEN Put(d, Len(a) - 1, U32(At(d, Len(a) - 1) - Base)) \o <<1>>
       ELSE d

\* ------------------------------------------------------------ subtraction
\* First loop of operator-=: subtract other's limbs; a limb that wrapped
\* below zero is >= Base, gets Base added and borrows from the next limb.
RECURSIVE SubLimbs(_, _, _)
SubLimbs(d, other, i) ==
    IF i = Len(other) THEN d
    ELSE LET s == U32(At(d, i) - At(other, i))
         IN IF s >= Base
            THEN SubLimbs(Put(Put(d, i, U32(s + Base)), i + 1, U32(At(d, i + 1) - 1)), other, i + 1)
            ELSE SubLimbs(Put(d, i, s), other, i + 1)

\* Second loop of operator-=: thisEnd = digits + length (one past the top
\* limb), so the last borrow may be taken from digits[length].
RECURSIVE BorrowUp(_, _, _)
BorrowUp(d, i, end) ==
    IF i # end /\ At(d, i) >= Base
    THEN BorrowUp(Put(Put(d, i, U32(At(d, i) + Base)), i + 1, U32(At(d, i + 1) - 1)), i + 1, end)
    ELSE d

\* Mutant of SubLoops: the loop that carries the borrow past the limbs of
\* `other` is left out.
SubLoopsWithoutBorrow(a, other) == SubLimbs(a \o <<0>>, other, 0)

\* The two loops of operator-= run on the array followed by the word that
\* lies one past digits[length - 1] (read as 0 before the call).
SubLoops(a, other) == BorrowUp(SubLimbs(a \o <<0>>, other, 0), Len(other), Len(a))

\* The limbs of operator-= after its validity check passed.
SubAssign(a, other) == Trim(SubSeq(SubLoops(a, other), 1, Len(a)))
\* Whether operator-= wrote digits[length], outside the logical array.
SubOverruns(a, other) == At(SubLoops(a, other), Len(a)) # 0

\* Loop of operator--: thisEnd = digits + length - 1; no trim follows.
RECURSIVE BorrowBelowTop(_, _)
BorrowBelowTop(d, i) ==
    IF i # Len(d) - 1 /\ At(d, i) >= Base
    THEN BorrowBelowTop(Put(Put(d, i, U32(At(d, i) + Base)), i + 1, U32(At(d, i + 1) - 1)), i + 1)
    ELSE d

\* UnsignedInteger::operator-- after its validity check passed.
Decrement(a) == BorrowBelowTop(Put(a, 0, U32(At(a, 0) - 1)), 0)

\* --------------------------------------------------------- multiplication
\* The result of an operator whose validity check failed: no value (the
\* call ended by throwing std::invalid_argument).  No UnsignedInteger has
\* length 0.
Thrown == <<>>

\* Inner loop of the schoolbook path: carry += digits[i - j] * other.digits[j]
\* for j from (i >= length ? i - length + 1 : 0) while j <= i && j < other.length.
RECURSIVE Accumulate(_, _, _, _, _)
Accumulate(a, other, i, j, carry) ==
    IF j <= i /\ j < Len(other)
    THEN Accumulate(a, other, i, j + 1, U64(carry + At(a, i - j) * At(other, j)))
    ELSE carry

\* Outer loop: one limb per output position, result.length = n + m - 1.
\* out holds result.digits[0 .. i), so that i = Len(out).
RECURSIVE SchoolbookLimbs(_, _, _, _)
SchoolbookLimbs(a, other, carry, out) ==
    IF Len(out) = Len(a) + Len(other) - 1
    THEN IF carry # 0 THEN Append(out, U32(carry)) ELSE out
    ELSE LET c == Accumulate(a, other, Len(out),
                             IF Len(out) >= Len(a) THEN Len(out) - Len(a) + 1 ELSE 0, carry)
         IN SchoolbookLimbs(a, other, c \div Base, Append(out, U32(c % Base)))

\* Mutant of SchoolbookMultiply: the loop that drops leading zero limbs is
\* left out.
SchoolbookMultiplyUntrimmed(a, other) == SchoolbookLimbs(a, other, 0, <<>>)

\* The schoolbook path of operator*= (either operand shorter than the threshold).
SchoolbookMultiply(a, other) == Trim(SchoolbookLimbs(a, other, 0, <<>>))

\* The digits a transform computes exactly: sample i of the product holds
\* (c[2i], c[2i+1]) of the convolution of the operands' half-limb sequences,
\* a limb being split as {digits[i] % 10000, digits[i] / 10000}.  The
\* floating-point transform is idealised: its rounded output is taken to be
\* the exact convolution.
RECURSIVE SumOf(_, _, _)
SumOf(terms, first, last) ==
    IF first > last THEN 0
    ELSE IF first = last THEN terms[first]
    ELSE SumOf(terms, first, (first + last) \div 2) + SumOf(terms, (first + last) \div 2 + 1, last)

\* The terms of sample i that limb j of `other` contributes to the real part
\* c[2i] = sum of lo * lo at i - j and hi * hi at i - j - 1 ...
RealTerm(a, other, i, j) ==
    (IF j <= i /\ i - j < Len(a)
     THEN (At(a, i - j) % HalfBase) * (At(other, j) % HalfBase) ELSE 0)
    + (IF j <= i /\ i - j >= 1 /\ i - j - 1 < Len(a)
       THEN (At(a, i - j - 1) \div HalfBase) * (At(other, j) \div HalfBase) ELSE 0)

\* ... and to the imaginary part c[2i+1] = sum of lo * hi + hi * lo at i - j.
ImagTerm(a, other, i, j) ==
    IF j <= i /\ i - j < Len(a)
    THEN (At(a, i - j) % HalfBase) * (At(other, j) \div HalfBase)
         + (At(a, i - j) \div HalfBase) * (At(other, j) % HalfBase)
    ELSE 0

ConvolveReal(a, other, i) ==
    SumOf([j \in 1..Len(other) |-> RealTerm(a, other, i, j - 1)], 1, Len(other))

ConvolveImag(a, other, i) ==
    SumOf([j \in 1..Len(other) |-> ImagTerm(a, other, i, j - 1)], 1, Len(other))

\* The carry loop of the transform path: resultLength = n + m limbs.
\* out holds result.digits[0 .. i), so that i = Len(out).
RECURSIVE TransformLimbs(_, _, _, _)
TransformLimbs(a, other, carry, out) ==
    IF Len(out) = Len(a) + Len(other) THEN out
    ELSE LET c == U64(carry + ConvolveReal(a, other, Len(out))
                            + ConvolveImag(a, other, Len(out)) * HalfBase)
         IN TransformLimbs(a, other, c \div Base, Append(out, U32(c % Base)))

\* Mutant of TransformMultiply: the loop that drops leading zero limbs is
\* left out.
TransformMultiplyUntrimmed(a, other) == TransformLimbs(a, other, 0, <<>>)

\* The transform path of operator*= (both operands at least the threshold).
TransformMultiply(a, other) == Trim(TransformLimbs(a, other, 0, <<>>))

\* UnsignedInteger::operator*=: the schoolbook path when either operand is
\* shorter than the threshold; otherwise the two validity checks, one for
\* each operand's length, and the transform path.  A failed check ends the
\* call with std::invalid_argument.
MulAssign(a, other) ==
    IF Len(a) < BruteforceThreshold \/ Len(other) < BruteforceThreshold
    THEN SchoolbookMultiply(a, other)
    ELSE IF Len(a) > TransformLimit THEN Thrown
    ELSE IF Len(other) > TransformLimit THEN Thrown
    ELSE TransformMultiply(a, other)


\* ---------------------------------------------------- schoolbook division
\* getEstimatedValue of bruteforceDivisionAndModulus.
getEstimatedValue(digitArray, highIndex, arrayLength) ==
    U64(10 * Base * (IF highIndex + 1 < arrayLength THEN At(digitArray, highIndex + 1) ELSE 0)
        + 10 * At(digitArray, highIndex)
        + (IF highIndex # 0 THEN At(digitArray, highIndex - 1) ELSE 0) \div (Base \div 10))

\* The limb loop of performSubtraction; st = [rem, carry].  The std::int64_t
\* carry is truncated to a limb; a negative remainder wraps to >= Base.
RECURSIVE SubtractLimbs(_, _, _, _, _)
SubtractLimbs(st, divisor, pos, pq, i) ==
    IF i = Len(divisor) THEN st
    ELSE LET c == st.carry - pq * At(divisor, i) + At(st.rem, pos + i)
             limb == U32(TruncMod(c, Base))
             c2 == TruncDiv(c, Base)
         IN IF limb >= Base
            THEN SubtractLimbs([rem |-> Put(st.rem, pos + i, U32(limb + Base)), carry |-> c2 - 1],
                               divisor, pos, pq, i + 1)
            ELSE SubtractLimbs([rem |-> Put(st.rem, pos + i, limb), carry |-> c2],
                               divisor, pos, pq, i + 1)

\* `if (carry) remainder.digits[currentPosition + divisor.length] += carry`.
AddFinalCarry(r, index) ==
    IF r.carry # 0 THEN Put(r.rem, index, U32(At(r.rem, index) + U32(r.carry)))
    ELSE r.rem

\* performSubtraction; st = [rem, quot].  rem is the remainder array followed
\* by the word one past its end, which a non-zero final carry would touch.
performSubtraction(st, divisor, pos, pq) ==
    [rem |-> AddFinalCarry(SubtractLimbs([rem |-> st.rem, carry |-> 0], divisor, pos, pq, 0),
                           pos + Len(divisor)),
     quot |-> Put(st.quot, pos, U32(At(st.quot, pos) + pq))]

\* The estimate loop: subtract partialQuotient * divisor while the estimate
\* is non-zero.  n is the dividend's length.
RECURSIVE EstimateLoop(_, _, _, _)
EstimateLoop(st, divisor, pos, n) ==
    LET pq == U32(getEstimatedValue(st.rem, pos + Len(divisor) - 1, n)
                  \div (getEstimatedValue(divisor, Len(divisor) - 1, Len(divisor)) + 1))
    IN IF pq # 0 THEN EstimateLoop(performSubtraction(st, divisor, pos, pq), divisor, pos, n)
       ELSE st

\* The final comparison of the window with the divisor, from the top limb:
\* 1 when the window is >= the divisor, else 0.
RECURSIVE WindowNotLess(_, _, _, _)
WindowNotLess(rem, divisor, pos, i) ==
    IF i = 0 THEN 1
    ELSE IF At(rem, i - 1 + pos) # At(divisor, i - 1)
         THEN (IF At(divisor, i - 1) < At(rem, i - 1 + pos) THEN 1 ELSE 0)
         ELSE WindowNotLess(rem, divisor, pos, i - 1)

\* `if (partialQuotient) performSubtraction()` after the comparison loop.
FinalSubtraction(st, divisor, pos) ==
    IF WindowNotLess(st.rem, divisor, pos, Len(divisor)) = 1
    THEN performSubtraction(st, divisor, pos, 1)
    ELSE st

\* The loop over currentPosition, from length - divisor.length down to 0.
RECURSIVE PositionLoop(_, _, _, _)
PositionLoop(st, divisor, pos, n) ==
    Sequenced(st,
        IF pos < 0 THEN st
        ELSE LET e == EstimateLoop([st EXCEPT !.quot = Put(st.quot, pos, 0)], divisor, pos, n)
             IN PositionLoop(FinalSubtraction(e, divisor, pos), divisor, pos - 1, n))

\* The arrays of bruteforceDivisionAndModulus after the position loop, for a
\* dividend that is not less than the divisor.
BruteforceArrays(x, divisor) ==
    PositionLoop([rem |-> x \o <<0>>, quot |-> Zeros(Len(x) - Len(divisor) + 1)],
                 divisor, Len(x) - Len(divisor), Len(x))

\* The two trimming loops that end bruteforceDivisionAndModulus.
TrimmedPair(st, n) == [first |-> Trim(st.quot), second |-> Trim(SubSeq(st.rem, 1, n))]

\* UnsignedInteger::bruteforceDivisionAndModulus: [first |-> quotient, second |-> remainder].
bruteforceDivisionAndModulus(x, divisor) ==
    IF Less(x, divisor) THEN [first |-> <<0>>, second |-> x]
    ELSE TrimmedPair(BruteforceArrays(x, divisor), Len(x))

\* Whether the division wrote remainder.digits[length], outside the array.
BruteforceOverruns(x, divisor) ==
    ~Less(x, divisor) /\ At(BruteforceArrays(x, divisor).rem, Len(x)) # 0

\* ------------------------------------------------------- Newton division
\* UnsignedInteger::operator+ , operator- , operator* , prefix operator--,
\* with an exception in an operand's evaluation propagating.
OperatorPlus(a, b) == IF a = Thrown \/ b = Thrown THEN Thrown ELSE AddAssign(a, b)
OperatorMinus(a, b) ==
    IF a = Thrown \/ b = Thrown THEN Thrown
    ELSE IF GreaterEq(a, b) THEN SubAssign(a, b) ELSE Thrown
OperatorTimes(a, b) == IF a = Thrown \/ b = Thrown THEN Thrown ELSE MulAssign(a, b)
OperatorDecrement(a) == IF a = Thrown THEN Thrown ELSE IF Bool(a) THEN Decrement(a) ELSE Thrown

\* UnsignedInteger::rightShift: drop shiftAmount low limbs, then trim.
rightShift(a, shiftAmount) ==
    IF a = Thrown THEN Thrown
    ELSE IF shiftAmount >= Len(a) THEN <<0>>
    ELSE Trim(SubSeq(a, shiftAmount + 1, Len(a)))

\* UnsignedInteger::leftShift: prepend shiftAmount zero limbs.
leftShift(a, shiftAmount) ==
    IF a = Thrown THEN Thrown
    ELSE IF Len(a) = 0 \/ shiftAmount = 0 THEN a
    ELSE Zeros(shiftAmount) \o a

\* Mutant of RefineInverse: the final `--result` is left out.
RefineInverseUndecremented(y, precisionBits, newPrecision, shiftBack, approximateInverse) ==
    IF approximateInverse = Thrown THEN Thrown
    ELSE OperatorMinus(leftShift(AddAssign(approximateInverse, approximateInverse),
                                 U32(precisionBits - newPrecision - shiftBack)),
                       rightShift(MulAssign(MulAssign(y, approximateInverse), approximateInverse),
                                  U32(2 * (newPrecision + shiftBack) - precisionBits)))

\* The refinement step of computeInverse, once the recursive call returned:
\* (a + a).leftShift(..) - (*this * a * a).rightShift(..), then --result.
RefineInverse(y, precisionBits, newPrecision, shiftBack, approximateInverse) ==
    IF approximateInverse = Thrown THEN Thrown
    ELSE LET doubled == leftShift(AddAssign(approximateInverse, approximateInverse),
                                  U32(precisionBits - newPrecision - shiftBack))
             square == MulAssign(MulAssign(y, approximateInverse), approximateInverse)
             correction == rightShift(square, U32(2 * (newPrecision + shiftBack) - precisionBits))
         IN OperatorDecrement(OperatorMinus(doubled, correction))

\* UnsignedInteger::computeInverse: about Base^precisionBits / y.
RECURSIVE computeInverse(_, _)
computeInverse(y, precisionBits) ==
    IF Len(y) < BruteforceThreshold \/ precisionBits < Len(y) + BruteforceThreshold
    THEN bruteforceDivisionAndModulus(Zeros(precisionBits) \o <<1>>, y).first
    ELSE LET halfPrecision == U32(precisionBits - Len(y) + 5) \div 2
             shiftBack == IF halfPrecision > Len(y) THEN 0 ELSE Len(y) - halfPrecision
             truncated == rightShift(y, shiftBack)
             newPrecision == halfPrecision + Len(truncated)
         IN RefineInverse(y, precisionBits, newPrecision, shiftBack,
                          computeInverse(truncated, newPrecision))

\* `while (quotient * other > *this) --quotient;`
RECURSIVE CorrectDown(_, _, _)
CorrectDown(quotient, x, other) ==
    IF quotient = Thrown THEN Thrown
    ELSE IF Greater(MulAssign(quotient, other), x)
         THEN CorrectDown(OperatorDecrement(quotient), x, other)
         ELSE quotient

\* Mutant of CorrectUp: the loop that raises a low estimate is left out.
CorrectUpSkipped(qr, other) == qr

\* `for (; remainder >= other; ++quotient, remainder -= other);`
RECURSIVE CorrectUp(_, _)
CorrectUp(qr, other) ==
    IF GreaterEq(qr.second, other)
    THEN CorrectUp([first |-> Increment(qr.first), second |-> SubAssign(qr.second, other)], other)
    ELSE qr

\* `(*this * inverse).rightShift(inversePrecision + shiftBack)`.
ShiftedProduct(x, inverse, shiftAmount) ==
    IF inverse = Thrown THEN Thrown
    ELSE rightShift(MulAssign(x, inverse), shiftAmount)

\* The inverse of the adjusted divisor and the estimate taken from it.
InverseEstimate(x, adjustedDivisor, precisionBits, shiftBack) ==
    ShiftedProduct(x, computeInverse(adjustedDivisor, precisionBits + Len(adjustedDivisor)),
                   precisionBits + Len(adjustedDivisor) + shiftBack)

\* `auto adjustedDivisor = shiftBack ? ++rightShift(shiftBack) : other`.
AdjustedEstimate(x, other, precisionBits, shiftBack) ==
    InverseEstimate(x,
                    IF shiftBack # 0 THEN Increment(rightShift(other, shiftBack))
                    ELSE rightShift(other, shiftBack),
                    precisionBits, shiftBack)

\* The first estimate of the quotient on the Newton path.
NewtonEstimate(x, other) ==
    AdjustedEstimate(x, other, Len(x) - Len(other) + 5,
                     IF Len(x) - Len(other) + 5 > Len(other) THEN 0
                     ELSE Len(other) - (Len(x) - Len(other) + 5))

\* `*this - product`, then the loop that raises a low estimate.
SubtractProduct(x, other, quotient, product) ==
    IF ~GreaterEq(x, product) THEN [first |-> Thrown, second |-> Thrown]
    ELSE CorrectUp([first |-> quotient, second |-> SubAssign(x, product)], other)

\* `UnsignedInteger remainder = *this - quotient * other` and what follows.
RemainderOf(x, other, quotient) ==
    IF quotient = Thrown THEN [first |-> Thrown, second |-> Thrown]
    ELSE SubtractProduct(x, other, quotient, MulAssign(quotient, other))

\* The Newton path of divisionAndModulus, from the first estimate on.
NewtonCorrect(x, other, estimate) ==
    RemainderOf(x, other, CorrectDown(estimate, x, other))

\* UnsignedInteger::divisionAndModulus: [first |-> quotient, second |-> remainder].
divisionAndModulus(x, other) ==
    IF Less(x, other) THEN [first |-> <<0>>, second |-> x]
    ELSE IF Len(x) < BruteforceThreshold \/ Len(other) < BruteforceThreshold
         THEN bruteforceDivisionAndModulus(x, other)
         ELSE NewtonCorrect(x, other, NewtonEstimate(x, other))

\* ------------------------------------------------------------------ text
\* A text is a sequence of characters, each a one-character string.
DigitChars == <<"0", "1", "2", "3", "4", "5", "6", "7", "8", "9">>
\* std::isdigit.
IsDigit(c) == \E v \in 1..10 : DigitChars[v] = c
\* `*value & 15` for a digit character.
DigitValue(c) == (CHOOSE v \in 1..10 : DigitChars[v] = c) - 1
AllDigits(text) == \A i \in 1..Len(text) : IsDigit(text[i])

\* detail::InputHelper: table[i << 8 | j] = (j & 15) * 10 + (i & 15), read
\* through a 16-bit load of two characters (the first is the low byte).
InputHelper(text, position) == DigitValue(At(text, position)) * 10 + DigitValue(At(text, position + 1))

\* The loop of construct that fills the limbs below the top one, each from
\* DigitsPerLimb characters, walking the text forward and the limbs downward.
RECURSIVE ConstructLow(_, _, _, _)
ConstructLow(text, position, current, d) ==
    IF current = 0 THEN d
    ELSE ConstructLow(text, position + DigitsPerLimb, current - 1,
                      Put(d, current - 1, InputHelper(text, position)))

\* Mutant of construct: the loop that drops leading zero limbs is left out.
constructUntrimmed(text) ==
    IF Len(text) % DigitsPerLimb = 0
    THEN ConstructLow(text, 0, Len(text) \div DigitsPerLimb, Zeros(Len(text) \div DigitsPerLimb))
    ELSE ConstructLow(text, 1, Len(text) \div DigitsPerLimb,
                      Put(Zeros(Len(text) \div DigitsPerLimb + 1), Len(text) \div DigitsPerLimb,
                          DigitValue(At(text, 0))))

\* UnsignedInteger::construct on an array of (stringLength + 7) >> 3 limbs
\* (scaled: (stringLength + DigitsPerLimb - 1) / DigitsPerLimb limbs).  The
\* switch on stringLength & 7 has the cases 0 and 1 at this scale.
construct(text) ==
    LET length == (Len(text) + DigitsPerLimb - 1) \div DigitsPerLimb
        partial == Len(text) % DigitsPerLimb
        d0 == Zeros(length)
    IN IF partial = 0
       THEN Trim(ConstructLow(text, 0, length, d0))
       ELSE Trim(ConstructLow(text, partial, length - 1,
                              Put(d0, length - 1, DigitValue(At(text, 0)))))

\* std::to_string of a limb: its decimal digits without leading zeros.
RECURSIVE Decimal(_)
Decimal(n) == IF n < 10 THEN <<DigitChars[n + 1]>> ELSE Append(Decimal(n \div 10), DigitChars[(n % 10) + 1])

\* Mutant of OutputHelper: a zero chunk is not padded to its width.
OutputHelperUnpadded(v) == IF v = 0 THEN <<>> ELSE IF v < HalfBase THEN <<DigitChars[v + 1]>> ELSE <<"?">>

\* detail::OutputHelper: the characters of a chunk below HalfBase; a larger
\* argument reads past the table, and the characters are then arbitrary.
OutputHelper(v) == IF v < HalfBase THEN <<DigitChars[v + 1]>> ELSE <<"?">>

\* The loop of operator std::string over the limbs below the top one.
RECURSIVE AppendLow(_, _, _)
AppendLow(d, i, result) ==
    IF i = 0 THEN result
    ELSE AppendLow(d, i - 1,
                   result \o OutputHelper(At(d, i - 1) \div HalfBase)
                          \o OutputHelper(At(d, i - 1) % HalfBase))

\* UnsignedInteger::operator std::string.
OperatorString(d) ==
    IF Len(d) = 0 THEN <<"0">>
    ELSE AppendLow(d, Len(d) - 1, Decimal(At(d, Len(d) - 1)))

\* ------------------------------------------------------- native conversions
\* The loop `while (digits[length++] = std::uint32_t(value) % Base, value /= Base);`
\* of the constructors and assignments from a native integer.
RECURSIVE FromIntegral(_, _)
FromIntegral(value, d) ==
    LET next == Append(d, U32(value) % Base)
    IN IF TruncDiv(value, Base) # 0 THEN FromIntegral(TruncDiv(value, Base), next) ELSE next

\* A native integer type is [name, wrap, signed]: wrap is the number of its
\* values.  static_cast<T>(x) keeps x modulo wrap, in the type's range.
NativeType(name, wrap, signed) == [name |-> name, wrap |-> wrap, signed |-> signed]
Cast(type, x) ==
    IF type.signed /\ x % type.wrap >= type.wrap \div 2 THEN (x % type.wrap) - type.wrap
    ELSE x % type.wrap
MostNegative(type) == -(type.wrap \div 2)

\* What a call that ran into undefined behaviour left instead of a value:
\* the division by T(Base) = 0 either traps or never ends.
DividesByZero == <<-1>>

\* The same loop for any native type T, `value /= T(Base)` dividing by Base
\* as T holds it (a narrow T is divided as int and converted back).
RECURSIVE FromNative(_, _, _)
FromNative(type, value, d) ==
    IF Cast(type, Base) = 0 THEN DividesByZero
    ELSE IF Cast(type, TruncDiv(value, Cast(type, Base))) # 0
         THEN FromNative(type, Cast(type, TruncDiv(value, Cast(type, Base))),
                         Append(d, U32(value) % Base))
         ELSE Append(d, U32(value) % Base)

\* The type std::abs computes in: int for the types narrower than int.
IntType == NativeType("int", Wrap32, TRUE)
AbsType(type) == IF type.wrap < Wrap32 THEN IntType ELSE type

\* UnsignedInteger(T value): the check `value >= 0` of a signed T, then the
\* loop.
UnsignedFromNative(type, value) ==
    IF type.signed /\ value < 0 THEN Thrown ELSE FromNative(type, value, <<>>)

\* SignedInteger(T value): absolute(value) for an unsigned T, and
\* absolute(std::abs(value)), sign(value < 0) for a signed one.  std::abs of
\* the most negative int or long long is undefined; `returned` is the value
\* it came back with.
SignedFromNative(type, value, returned) ==
    IF ~type.signed THEN [absolute |-> UnsignedFromNative(type, value), sign |-> FALSE]
    ELSE [absolute |-> UnsignedFromNative(AbsType(type), returned), sign |-> value < 0]

\* What std::abs may come back with: the magnitude, or for the most negative
\* value of its type that value itself.
AbsResults(type, value) ==
    IF value = MostNegative(AbsType(type)) THEN {value}
    ELSE {Magnitude(value)}

\* A floating-point value is [neg, int, frac]: its sign, the integer part of
\* its magnitude and whether the magnitude has a fractional part.  The loop
\* `while (digits[length++] = std::uint32_t(std::fmod(value, Base)),
\*         (value = std::floor(value / Base)));` of the constructors and
\* assignments from a floating-point value, applied to the magnitude.
RECURSIVE FromFloating(_, _)
FromFloating(int, d) ==
    LET next == Append(d, U32(int % Base))
    IN IF int \div Base # 0 THEN FromFloating(int \div Base, next) ELSE next

\* UnsignedInteger::operator unsignedIntegral (Horner, wrapping at the width
\* of the target type: unsigned long long).
RECURSIVE ToUnsignedIntegral(_, _)
ToUnsignedIntegral(d, i) ==
    IF i = Len(d) THEN 0
    ELSE U64(ToUnsignedIntegral(d, i + 1) * U64(Base) + At(d, i))

\* The unsigned type of the same width: std::make_unsigned<T>::type.
MakeUnsigned(type) == NativeType(type.name, type.wrap, FALSE)

\* The loop of operator unsignedIntegral and operator signedIntegral for any
\* native type: `result = result * UnsignedT(Base) + UnsignedT(*--i)` from
\* the top limb down, each step kept in UnsignedT.
RECURSIVE HornerNative(_, _, _)
HornerNative(type, d, i) ==
    IF i = Len(d) THEN 0
    ELSE Cast(MakeUnsigned(type),
              HornerNative(type, d, i + 1) * Cast(MakeUnsigned(type), Base)
                  + Cast(MakeUnsigned(type), At(d, i)))

\* UnsignedInteger::operator unsignedIntegral and operator signedIntegral:
\* the loop, then static_cast<T> of its result.
UnsignedToNative(type, d) == Cast(type, HornerNative(type, d, 0))

\* Mutant of SignedToNative: the magnitude of a negative value is not
\* subtracted from zero.
SignedToNativeUnnegated(type, x) == Cast(type, HornerNative(type, x.absolute, 0))

\* SignedInteger::operator signedIntegral: the magnitude in UnsignedT, and
\* for a set sign UnsignedT(0) - magnitude, cast to T.
SignedToNative(type, x) ==
    IF ~x.sign THEN Cast(type, HornerNative(type, x.absolute, 0))
    ELSE Cast(type, Cast(MakeUnsigned(type), 0 - HornerNative(type, x.absolute, 0)))

\* ------------------------------------------------------- SignedInteger
\* A SignedInteger is [absolute |-> limbs, sign |-> BOOLEAN]; an operation
\* that can throw yields [absolute, sign, thrown], the fields being those
\* the object is left with.
Signed(absolute, sign) == [absolute |-> absolute, sign |-> sign]

\* The tail `sign = sign && bool(absolute)` of the signed operators.
ClearSignOfZero(absolute, sign) == Signed(absolute, sign /\ Bool(absolute))

\* The body shared by SignedInteger::operator+= and operator-=: the
\* magnitudes add when `together`, otherwise the smaller is taken from the
\* larger and the sign follows the larger.
Combine(x, other, together) ==
    IF together THEN ClearSignOfZero(AddAssign(x.absolute, other.absolute), x.sign)
    ELSE IF Less(x.absolute, other.absolute)
         THEN ClearSignOfZero(SubAssign(other.absolute, x.absolute), ~x.sign)
         ELSE ClearSignOfZero(SubAssign(x.absolute, other.absolute), x.sign)

\* SignedInteger::operator+= and operator-=.
SignedAddAssign(x, other) == Combine(x, other, x.sign = other.sign)
SignedSubAssign(x, other) == Combine(x, other, x.sign # other.sign)

\* SignedInteger::operator*=.
SignedMulAssign(x, other) ==
    LET product == MulAssign(x.absolute, other.absolute)
    IN Signed(product, (x.sign # other.sign) /\ Bool(product))

\* Mutant of SignedDivAssign: the sign of a zero quotient is not cleared.
SignedDivAssignKeepsSign(x, other) ==
    Signed(divisionAndModulus(x.absolute, other.absolute).first, x.sign # other.sign)

\* SignedInteger::operator/= past its zero check.
SignedDivAssign(x, other) ==
    LET quotient == divisionAndModulus(x.absolute, other.absolute).first
    IN ClearSignOfZero(quotient, x.sign # other.sign)

\* SignedInteger::operator%= past its zero check:
\* `*this -= (*this / other) * other`.
SignedModAssign(x, other) ==
    SignedSubAssign(x, SignedMulAssign(SignedDivAssign(x, other), other))

\* SignedInteger::operator=(const char*) and operator=(const std::string&).
\* The sign is stored while the argument of the inner assignment is being
\* evaluated, before UnsignedInteger::operator= validates the digits left.
SignedAssignString(x, text) ==
    IF Len(text) = 0 THEN [absolute |-> x.absolute, sign |-> x.sign, thrown |-> TRUE]
    ELSE LET negative == text[1] = "-"
             rest == IF negative THEN Tail(text) ELSE text
         IN IF ~AllDigits(rest)
            THEN [absolute |-> x.absolute, sign |-> x.sign, thrown |-> TRUE]
            ELSE IF Len(rest) = 0
                 THEN [absolute |-> x.absolute, sign |-> negative, thrown |-> TRUE]
                 ELSE [absolute |-> construct(rest),
                       sign |-> negative /\ Bool(construct(rest)), thrown |-> FALSE]

\* SignedInteger(const char*) and SignedInteger(const std::string&), for a
\* text the checks accept.
ParseSigned(text) ==
    Signed(SignedAssignString(Signed(<<0>>, FALSE), text).absolute, SignedAssignString(Signed(<<0>>, FALSE), text).sign)

\* SignedInteger(floatingPoint): absolute(std::abs(value)), sign(value < 0).
SignedFromFloating(value) == Signed(FromFloating(value.int, <<>>), value.neg)

\* SignedInteger::operator std::string.
SignedString(x) ==
    IF x.sign /\ Bool(x.absolute) THEN <<"-">> \o OperatorString(x.absolute)
    ELSE OperatorString(x.absolute)

\* SignedInteger::operator== and operator<.
SignedEqual(x, other) == x.sign = other.sign /\ Equal(x.absolute, other.absolute)
SignedLess(x, other) ==
    IF x.sign THEN ~other.sign \/ Greater(x.absolute, other.absolute)
    ELSE ~other.sign /\ Less(x.absolute, other.absolute)

\* SignedInteger::operator>, operator<= and operator>=.
SignedGreater(x, other) ==
    IF x.sign THEN other.sign /\ Less(x.absolute, other.absolute)
    ELSE other.sign \/ Greater(x.absolute, other.absolute)
SignedLessEq(x, other) ==
    IF x.sign THEN ~other.sign \/ GreaterEq(x.absolute, other.absolute)
    ELSE ~other.sign /\ LessEq(x.absolute, other.absolute)
SignedGreaterEq(x, other) ==
    IF x.sign THEN other.sign /\ LessEq(x.absolute, other.absolute)
    ELSE other.sign \/ GreaterEq(x.absolute, other.absolute)

\* ------------------------------------------------------------ the machine
\* u and v are UnsignedInteger objects, s and t SignedInteger objects, and
\* class is the class whose operators the run exercises.  Each step is one
\* public operation with u or s as its target; op names it, arg is its
\* argument when that is not an object, err is how it ended, pre holds the
\* objects as they were before it and ret the value it returned when that is
\* not the target.
VARIABLES class, u, v, s, t, op, arg, err, pre, ret, steps
objectVars == <<class, u, v, s, t, op, arg, err, pre, ret, steps>>

\* The runs with several threads: thread holds each thread's position and
\* its own values, scratch the instances of the thread_local variables, and
\* access the scratch instance the latest step read or wrote.
VARIABLES thread, scratch, access
threadVars == <<thread, scratch, access>>
NoAccess == [thread |-> 0, slot |-> 0]
NoThreads == thread = <<>> /\ scratch = <<>> /\ access = NoAccess

\* The command-line driver of a run, when the run is one of the driver.
VARIABLES driver
NoDriver == driver = [status |-> "none"]
\* The call of u / v a run follows loop by loop, when the run is one of those.
VARIABLES division
NoDivision == division = [pc |-> "none"]
\* The TransformHelper a run resizes, when the run is one of those.
VARIABLES helper
NoHelper == helper = [pc |-> "none"]
\* The limb array of one UnsignedInteger with its fields, when a run follows
\* them.
VARIABLES storage
NoStorage == storage = [outcome |-> "absent"]
vars == <<class, u, v, s, t, op, arg, err, pre, ret, steps, thread, scratch, access, driver, division,
          helper, storage>>

\* The limb values operands are drawn from: the ends of the limb range and
\* the value whose addition to Base - 1 carries.
LimbVals == {0, 1, Base - 1}

\* The limb values signed operands are drawn from: they give quotients that
\* truncate (7 / 2, 99 / 7) and a sum that carries (99 + 2).
SignedLimbVals == {0, 2, 7, Base - 1}

RECURSIVE LimbSeqs(_, _)
LimbSeqs(n, vals) == IF n = 0 THEN {<<>>} ELSE {Append(d, x) : d \in LimbSeqs(n - 1, vals), x \in vals}

\* The canonical magnitudes of at most maxLen limbs over vals.
Magnitudes(maxLen, vals) == {d \in UNION {LimbSeqs(n, vals) : n \in 1..maxLen} : TopNonZero(d)}

\* The signed values over magnitudes one limb shorter than the unsigned
\* operands; zero is not negative.
SignedValues ==
    {Signed(d, sg) : d \in Magnitudes(MaxLen - 1, SignedLimbVals), sg \in BOOLEAN} \ {Signed(<<0>>, TRUE)}

\* Texts handed to the assignments from a string.
Texts == {<<>>, <<"-">>, <<"1", "2", "3">>, <<"1", "x">>,
          <<"-", "5">>, <<"-", "0">>, <<"0", "0", "4", "2">>}

\* Native signed integers handed to the assignment from an integer.
Natives == {-3, 0, 250}

\* Floating-point values handed to the SignedInteger constructor: 0.0, -0.5,
\* -3.5, 150.0.
Floats == {[neg |-> FALSE, int |-> 0, frac |-> FALSE], [neg |-> TRUE, int |-> 0, frac |-> TRUE],
           [neg |-> TRUE, int |-> 3, frac |-> TRUE], [neg |-> FALSE, int |-> 150, frac |-> FALSE]}

\* UnsignedInteger() and SignedInteger().
DefaultUnsigned == <<0>>
DefaultSigned == Signed(DefaultUnsigned, FALSE)

\* What an operation returned: nothing, one value, or (for the binary
\* operators / and %, which leave their operands alone) the quotient and the
\* remainder obtained so far from the same operands.
NoArgument == "none"
NoReturn == [none |-> TRUE]
Returns(x) == [first |-> x]
DivisionOps == {"u / v", "u % v", "s / t", "s % t"}
WithFirst(x) ==
    IF op \in DivisionOps /\ "second" \in DOMAIN ret THEN [first |-> x, second |-> ret.second]
    ELSE [first |-> x]
WithSecond(x) ==
    IF op \in DivisionOps /\ "first" \in DOMAIN ret THEN [first |-> ret.first, second |-> x]
    ELSE [second |-> x]

Objects == [u |-> u, v |-> v, s |-> s, t |-> t]

\* One operation ends: the objects it leaves, how it ended, what it returned.
Finish(name, argument, newU, newS, newT, outcome, returned) ==
    /\ class' = class
    /\ u' = newU /\ v' = v /\ s' = newS /\ t' = newT
    /\ op' = name /\ arg' = argument /\ err' = outcome /\ ret' = returned
    /\ pre' = Objects
    /\ steps' = steps + 1
    /\ UNCHANGED <<threadVars, driver, division, helper, storage>>

\* A run is MaxSteps operations long and exercises one class.
UnsignedRun == steps < MaxSteps /\ class = "UnsignedInteger"
SignedRun == steps < MaxSteps /\ class = "SignedInteger"

\* The end of an operation on u whose result the validity checks inside the
\* division may have replaced by an exception: the result is stored in u ...
AssignUnlessThrown(name, value) ==
    IF value = Thrown THEN Finish(name, NoArgument, u, s, t, "invalid_argument", NoReturn)
    ELSE Finish(name, NoArgument, value, s, t, "none", NoReturn)

\* ... or returned as the quotient (asFirst) or the remainder.
ReturnUnlessThrown(name, value, asFirst) ==
    IF value = Thrown THEN Finish(name, NoArgument, u, s, t, "invalid_argument", NoReturn)
    ELSE Finish(name, NoArgument, u, s, t, "none",
                IF asFirst THEN WithFirst(value) ELSE WithSecond(value))

Started ==
    /\ op = "init" /\ arg = NoArgument /\ err = "none" /\ ret = NoReturn /\ steps = 0
    /\ pre = Objects
    /\ NoThreads
    /\ NoDriver
    /\ NoDivision
    /\ NoHelper /\ NoStorage

InitU ==
    /\ class = "UnsignedInteger"
    /\ u \in Magnitudes(MaxLen, LimbVals) /\ v \in Magnitudes(MaxLen, LimbVals)
    /\ s = DefaultSigned /\ t = DefaultSigned
    /\ Started

InitS ==
    /\ class = "SignedInteger"
    /\ u = DefaultUnsigned /\ v = DefaultUnsigned
    /\ s \in SignedValues /\ t \in SignedValues
    /\ Started

\* --------------------------------------------- UnsignedInteger operations
\* u += v
UAddAssign == UnsignedRun /\ Finish("u += v", NoArgument, AddAssign(u, v), s, t, "none", NoReturn)

\* Mutant of USubAssign: the check `*this >= other` is left out.
USubAssignUnchecked == UnsignedRun /\
    Finish("u -= v", NoArgument, SubAssign(u, v), s, t,
           IF SubOverruns(u, v) THEN "overrun" ELSE "none", NoReturn)

\* u -= v: the check `*this >= other`, then the limb loops, which write
\* digits[length] when the borrow leaves the top limb.
USubAssign == UnsignedRun /\
    IF GreaterEq(u, v)
    THEN Finish("u -= v", NoArgument, SubAssign(u, v), s, t,
                IF SubOverruns(u, v) THEN "overrun" ELSE "none", NoReturn)
    ELSE Finish("u -= v", NoArgument, u, s, t, "invalid_argument", NoReturn)

\* u *= v
UMulAssign == UnsignedRun /\ AssignUnlessThrown("u *= v", MulAssign(u, v))

\* u /= v: the check `bool(other)`, then the move of the quotient.
UDivAssign == UnsignedRun /\
    IF ~Bool(v) THEN Finish("u /= v", NoArgument, u, s, t, "invalid_argument", NoReturn)
    ELSE AssignUnlessThrown("u /= v", divisionAndModulus(u, v).first)

\* u %= v
UModAssign == UnsignedRun /\
    IF ~Bool(v) THEN Finish("u %= v", NoArgument, u, s, t, "invalid_argument", NoReturn)
    ELSE AssignUnlessThrown("u %= v", divisionAndModulus(u, v).second)

\* ++u
UIncrement == UnsignedRun /\ Finish("++u", NoArgument, Increment(u), s, t, "none", NoReturn)

\* --u: the check `bool(*this)`, then the borrow loop.
UDecrement == UnsignedRun /\
    IF Bool(u) THEN Finish("--u", NoArgument, Decrement(u), s, t, "none", NoReturn)
    ELSE Finish("--u", NoArgument, u, s, t, "invalid_argument", NoReturn)

\* u = text (const char* or std::string): both checks come before any write.
UAssignString == UnsignedRun /\
    \E text \in Texts :
        IF Len(text) = 0 \/ ~AllDigits(text)
        THEN Finish("u = text", text, u, s, t, "invalid_argument", NoReturn)
        ELSE Finish("u = text", text, construct(text), s, t, "none", NoReturn)

\* u = value for a native signed integer: the check `value >= 0`, then the
\* conversion loop.
UAssignIntegral == UnsignedRun /\
    \E value \in Natives :
        IF value < 0 THEN Finish("u = native", value, u, s, t, "invalid_argument", NoReturn)
        ELSE Finish("u = native", value, FromIntegral(value, <<>>), s, t, "none", NoReturn)

\* UnsignedInteger(value) for a native signed integer; the new object is
\* returned.
UFromIntegral == UnsignedRun /\
    \E value \in Natives :
        IF value < 0 THEN Finish("UnsignedInteger(native)", value, u, s, t, "invalid_argument", NoReturn)
        ELSE Finish("UnsignedInteger(native)", value, u, s, t, "none", Returns(FromIntegral(value, <<>>)))

\* u = std::move(v), for distinct objects: u takes v's array, and v a new
\* array of one zero limb (UnsignedInteger(UnsignedInteger&&) does the same
\* to a new object).
UMoveAssign == UnsignedRun /\
    /\ class' = class
    /\ u' = v /\ v' = DefaultUnsigned /\ s' = s /\ t' = t
    /\ op' = "u = std::move(v)" /\ arg' = NoArgument /\ err' = "none" /\ ret' = NoReturn
    /\ pre' = Objects
    /\ steps' = steps + 1
    /\ UNCHANGED <<threadVars, driver, division, helper, storage>>

\* u / v and u % v: a copy of u is divided; u and v are left alone.
UOperatorDivide == UnsignedRun /\
    IF ~Bool(v) THEN Finish("u / v", NoArgument, u, s, t, "invalid_argument", NoReturn)
    ELSE ReturnUnlessThrown("u / v", divisionAndModulus(u, v).first, TRUE)

UOperatorModulo == UnsignedRun /\
    IF ~Bool(v) THEN Finish("u % v", NoArgument, u, s, t, "invalid_argument", NoReturn)
    ELSE ReturnUnlessThrown("u % v", divisionAndModulus(u, v).second, FALSE)

NextU ==
    \/ UAddAssign \/ USubAssign \/ UMulAssign \/ UDivAssign \/ UModAssign
    \/ UIncrement \/ UDecrement \/ UAssignString \/ UAssignIntegral
    \/ UFromIntegral \/ UOperatorDivide \/ UOperatorModulo \/ UMoveAssign

\* ----------------------------------------------- SignedInteger operations
\* s += t, s -= t, s *= t
SAddAssign == SignedRun /\ Finish("s += t", NoArgument, u, SignedAddAssign(s, t), t, "none", NoReturn)
SSubAssign == SignedRun /\ Finish("s -= t", NoArgument, u, SignedSubAssign(s, t), t, "none", NoReturn)
SMulAssign == SignedRun /\ Finish("s *= t", NoArgument, u, SignedMulAssign(s, t), t, "none", NoReturn)

\* s /= t and s %= t: the check `bool(other)` first.
SDivAssign == SignedRun /\
    IF ~Bool(t.absolute) THEN Finish("s /= t", NoArgument, u, s, t, "invalid_argument", NoReturn)
    ELSE Finish("s /= t", NoArgument, u, SignedDivAssign(s, t), t, "none", NoReturn)

SModAssign == SignedRun /\
    IF ~Bool(t.absolute) THEN Finish("s %= t", NoArgument, u, s, t, "invalid_argument", NoReturn)
    ELSE Finish("s %= t", NoArgument, u, SignedModAssign(s, t), t, "none", NoReturn)

\* s = text
SAssignString == SignedRun /\
    \E text \in Texts :
        LET result == SignedAssignString(s, text)
        IN Finish("s = text", text, u, Signed(result.absolute, result.sign), t,
                  IF result.thrown THEN "invalid_argument" ELSE "none", NoReturn)

\* s = SignedInteger(value) for a floating-point value.
SFromFloating == SignedRun /\
    \E value \in Floats :
        Finish("s = SignedInteger(float)", value, u, SignedFromFloating(value), t, "none", NoReturn)

\* s = std::move(t): the magnitude moves, leaving t's magnitude 0; the sign
\* is copied and t keeps its own.
SMoveAssign == SignedRun /\ Finish("s = std::move(t)", NoArgument, u, t, Signed(DefaultUnsigned, t.sign), "none", NoReturn)

\* UnsignedInteger(s): the copy is made, then the sign is checked.
UFromSigned == SignedRun /\
    IF s.sign THEN Finish("UnsignedInteger(s)", NoArgument, u, s, t, "invalid_argument", NoReturn)
    ELSE Finish("UnsignedInteger(s)", NoArgument, u, s, t, "none", Returns(s.absolute))

\* u = s: the sign is checked, then the magnitude copied.
UAssignSigned == SignedRun /\
    IF s.sign THEN Finish("u = s", NoArgument, u, s, t, "invalid_argument", NoReturn)
    ELSE Finish("u = s", NoArgument, s.absolute, s, t, "none", NoReturn)

\* static_cast<unsigned long long>(s)
SToUnsignedIntegral == SignedRun /\
    IF s.sign THEN Finish("unsigned(s)", NoArgument, u, s, t, "invalid_argument", NoReturn)
    ELSE Finish("unsigned(s)", NoArgument, u, s, t, "none", Returns(ToUnsignedIntegral(s.absolute, 0)))

\* s / t and s % t: a copy of s is divided; s and t are left alone.
SOperatorDivide == SignedRun /\
    IF ~Bool(t.absolute) THEN Finish("s / t", NoArgument, u, s, t, "invalid_argument", NoReturn)
    ELSE Finish("s / t", NoArgument, u, s, t, "none", WithFirst(SignedDivAssign(s, t)))

SOperatorModulo == SignedRun /\
    IF ~Bool(t.absolute) THEN Finish("s % t", NoArgument, u, s, t, "invalid_argument", NoReturn)
    ELSE Finish("s % t", NoArgument, u, s, t, "none", WithSecond(SignedModAssign(s, t)))

NextS ==
    \/ SAddAssign \/ SSubAssign \/ SMulAssign \/ SDivAssign \/ SModAssign
    \/ SAssignString \/ SFromFloating \/ SMoveAssign
    \/ UFromSigned \/ UAssignSigned \/ SToUnsignedIntegral
    \/ SOperatorDivide \/ SOperatorModulo

Init == InitU \/ InitS
Next == NextU \/ NextS
Spec == Init /\ [][Next]_vars

\* ------------------------------------------------- reference arithmetic
\* The integers the laws are stated in, on limb sequences too long for a
\* machine integer: column sums of the product, then one carry pass.
RECURSIVE RefColumn(_, _, _, _)
RefColumn(q, y, k, i) ==
    IF i >= Len(q) \/ i > k THEN 0
    ELSE (IF k - i < Len(y) THEN At(q, i) * At(y, k - i) ELSE 0) + RefColumn(q, y, k, i + 1)

RECURSIVE RefLimbs(_, _, _, _, _)
RefLimbs(q, y, r, k, carry) ==
    IF k >= Len(q) + Len(y) /\ k >= Len(r) /\ carry = 0 THEN <<>>
    ELSE LET total == RefColumn(q, y, k, 0) + (IF k < Len(r) THEN At(r, k) ELSE 0) + carry
         IN <<total % Base>> \o RefLimbs(q, y, r, k + 1, total \div Base)

\* The canonical limbs of q * y + r.
RefMulAdd(q, y, r) == Trim(RefLimbs(q, y, r, 0, 0))

\* a < b as integers, for canonical a and b.
RefLess(a, b) ==
    \/ Len(a) < Len(b)
    \/ /\ Len(a) = Len(b)
       /\ \E i \in 1..Len(a) : a[i] < b[i] /\ \A j \in (i + 1)..Len(a) : a[j] = b[j]

\* ------------------------------------------------------- division runs
RECURSIVE Repeat(_, _)
Repeat(x, n) == IF n <= 0 THEN <<>> ELSE Append(Repeat(x, n - 1), x)

\* n equal limbs under a top limb.
Pattern(low, n, top) == Append(Repeat(low, n), top)

\* n limbs that differ from one another, none of them zero.
RECURSIVE Ramp(_)
Ramp(n) == IF n = 0 THEN <<>> ELSE Append(Ramp(n - 1), ((37 * n + 3) % (Base - 1)) + 1)

Shapes(maxLen) ==
    {Pattern(low, n, top) : low \in {0, Base - 1}, n \in 0..(maxLen - 1), top \in {1, Base - 1}}
        \cup {Ramp(n) : n \in 1..maxLen}

Dividends == Shapes(MaxDividendLen) \cup {<<0>>}
Divisors == Shapes(MaxDivisorLen) \cup {<<0>>}

\* Quotients the dividend is built from, so that the division is exact or
\* leaves the remainder 1.
Multipliers == {<<1>>, <<Base - 1>>, Pattern(0, 1, 1), Pattern(Base - 1, 2, Base - 1),
                Pattern(0, MaxDividendLen - MaxDivisorLen, 1), Ramp(MaxDividendLen - MaxDivisorLen)}

InitDiv ==
    /\ class = "UnsignedInteger"
    /\ \/ u \in Dividends /\ v \in Divisors
       \/ \E y \in Divisors \ {<<0>>}, m \in Multipliers, r \in {<<0>>, <<1>>} :
              u = RefMulAdd(m, y, r) /\ v = y
    /\ s = DefaultSigned /\ t = DefaultSigned
    /\ Started

NextDiv == UOperatorDivide \/ UOperatorModulo

SpecDiv == InitDiv /\ [][NextDiv]_vars

\* -------------------------------------------------- multiplication runs
\* Factors on both sides of the threshold, and three long ones: two whose
\* lengths sum to more than TransformLimit, one at the limit and one above it.
LongFactors ==
    {Pattern(Base - 1, n - 1, 1) : n \in {TransformLimit \div 2 + 1, TransformLimit, TransformLimit + 1}}

Factors == Shapes(MaxFactorLen) \cup {<<0>>} \cup LongFactors

InitMul ==
    /\ class = "UnsignedInteger"
    /\ u \in Factors /\ v \in Factors
    /\ s = DefaultSigned /\ t = DefaultSigned
    /\ Started

NextMul == UMulAssign

SpecMul == InitMul /\ [][NextMul]_vars

\* ------------------------------------------------------------ text runs
\* The digit strings of at most MaxTextLen characters over 0, 1 and 9, and
\* the same behind a minus sign.
RECURSIVE DigitTexts(_)
DigitTexts(n) ==
    IF n = 0 THEN {<<>>}
    ELSE DigitTexts(n - 1) \cup {Append(text, c) : text \in DigitTexts(n - 1), c \in {"0", "1", "9"}}

UnsignedTexts == DigitTexts(MaxTextLen) \ {<<>>}
SignedTexts == UnsignedTexts \cup {<<"-">> \o text : text \in UnsignedTexts}

\* An operation that leaves every object alone is the only one of its run.
UnsignedOnce == UnsignedRun /\ steps = 0
SignedOnce == SignedRun /\ steps = 0

\* std::string(UnsignedInteger(text)): the constructor's checks, construct,
\* then the conversion of the new object, which is returned.
UPrintParsed == UnsignedOnce /\
    \E text \in UnsignedTexts :
        IF Len(text) = 0 \/ ~AllDigits(text)
        THEN Finish("std::string(UnsignedInteger(text))", text, u, s, t, "invalid_argument", NoReturn)
        ELSE Finish("std::string(UnsignedInteger(text))", text, u, s, t, "none",
                    Returns(OperatorString(construct(text))))

\* std::string(SignedInteger(text)).
SPrintParsed == SignedOnce /\
    \E text \in SignedTexts :
        IF SignedAssignString(DefaultSigned, text).thrown
        THEN Finish("std::string(SignedInteger(text))", text, u, s, t, "invalid_argument", NoReturn)
        ELSE Finish("std::string(SignedInteger(text))", text, u, s, t, "none",
                    Returns(SignedString(ParseSigned(text))))

InitText ==
    /\ class \in {"UnsignedInteger", "SignedInteger"}
    /\ u = DefaultUnsigned /\ v = DefaultUnsigned
    /\ s = DefaultSigned /\ t = DefaultSigned
    /\ Started

NextText == UPrintParsed \/ SPrintParsed

SpecText == InitText /\ [][NextText]_vars

\* ---------------------------------------------------------- native runs
\* The native types, and for each the ends of its range and values on both
\* sides of Base and of the range of std::uint32_t.
NativeTypes ==
    {NativeType("std::uint8_t", Wrap8, FALSE), NativeType("std::int8_t", Wrap8, TRUE),
     NativeType("std::uint16_t", Wrap16, FALSE), NativeType("std::int16_t", Wrap16, TRUE),
     NativeType("std::uint32_t", Wrap32, FALSE), NativeType("std::int32_t", Wrap32, TRUE),
     NativeType("std::uint64_t", Wrap64, FALSE), NativeType("std::int64_t", Wrap64, TRUE)}

NativeMagnitudes ==
    (0..(Wrap16 - 1)) \cup {Base - 1, Base, Base + 1, Wrap32 \div 2 - 1, Wrap32 \div 2, Wrap32 - 1, Wrap32,
                            Wrap32 + Base, Base * Base, Wrap64 \div 2 - 1, Wrap64 \div 2, Wrap64 - 1}

NativeValues(type) ==
    IF type.signed
    THEN {x \in NativeMagnitudes : x < type.wrap \div 2} \cup {-x : x \in {y \in NativeMagnitudes : y <= type.wrap \div 2}}
    ELSE {x \in NativeMagnitudes : x < type.wrap}

NativeInput(type, value) == [type |-> type.name, value |-> value]

\* How a constructor from a native integer ended.
NativeOutcome(d, hangs) ==
    IF d = Thrown THEN "invalid_argument"
    ELSE IF d = DividesByZero THEN (IF hangs THEN "hang" ELSE "trap")
    ELSE "none"

\* UnsignedInteger(T value); the new object is returned.
UFromNative == UnsignedOnce /\
    \E type \in NativeTypes : \E value \in NativeValues(type), hangs \in BOOLEAN :
        Finish("UnsignedInteger(T)", NativeInput(type, value), u, s, t,
               NativeOutcome(UnsignedFromNative(type, value), hangs),
               IF NativeOutcome(UnsignedFromNative(type, value), hangs) = "none"
               THEN Returns(UnsignedFromNative(type, value)) ELSE NoReturn)

\* SignedInteger(T value); the new object is returned.
SFromNative == SignedOnce /\
    \E type \in NativeTypes : \E value \in NativeValues(type), hangs \in BOOLEAN :
        \E returned \in AbsResults(type, value) :
            Finish("SignedInteger(T)", NativeInput(type, value), u, s, t,
                   NativeOutcome(SignedFromNative(type, value, returned).absolute, hangs),
                   IF NativeOutcome(SignedFromNative(type, value, returned).absolute, hangs) = "none"
                   THEN Returns(SignedFromNative(type, value, returned)) ELSE NoReturn)

InitNative == InitText

NextNative == UFromNative \/ SFromNative

SpecNative == InitNative /\ [][NextNative]_vars

\* ------------------------------------------------------ conversion runs
\* Limb values whose combinations pass the range of every native type.
ConvertLimbVals == {0, 1, Base \div 2, Base - 1}

\* static_cast<T>(u) for every native type T.
UToNative == UnsignedOnce /\
    \E type \in NativeTypes :
        Finish("T(u)", type, u, s, t, "none", Returns(UnsignedToNative(type, u)))

\* static_cast<T>(s) for every signed native type T.
SToNative == SignedOnce /\
    \E type \in {ty \in NativeTypes : ty.signed} :
        Finish("T(s)", type, u, s, t, "none", Returns(SignedToNative(type, s)))

InitConvert ==
    /\ class \in {"UnsignedInteger", "SignedInteger"}
    /\ \/ /\ class = "UnsignedInteger"
          /\ u \in Magnitudes(MaxConvertLen, ConvertLimbVals) /\ s = DefaultSigned
       \/ /\ class = "SignedInteger"
          /\ u = DefaultUnsigned
          /\ s \in {Signed(d, sg) : d \in Magnitudes(MaxConvertLen, ConvertLimbVals), sg \in BOOLEAN}
    /\ v = DefaultUnsigned /\ t = DefaultSigned
    /\ Started

NextConvert == UToNative \/ SToNative

SpecConvert == InitConvert /\ [][NextConvert]_vars

\* ------------------------------------------------------ comparison runs
\* Operands around the block boundaries: limbs all 1 with one limb raised to
\* 2, at the ends of the value and on both sides of the lowest boundary.
Raised(d, i) == IF i < Len(d) THEN Put(d, i, 2) ELSE d

BlockLengths ==
    {k * BlockSize + r : k \in 1..MaxBlocks, r \in {-1, 0, 1}}

Ones(n) == [i \in 1..n |-> 1]

RaisedAt(n) == {Raised(Ones(n), i) : i \in {0, BlockSize - 1, BlockSize, n - 1, n}}

BlockOperands == UNION {RaisedAt(n) : n \in BlockLengths}

CompareOperands == Magnitudes(MaxLen, LimbVals) \cup BlockOperands

\* All six comparison operators on u and v.
UCompare == UnsignedOnce /\
    Finish("compare(u, v)", NoArgument, u, s, t, "none",
           [less |-> Less(u, v), equal |-> Equal(u, v), greater |-> Greater(u, v),
            lessEq |-> LessEq(u, v), greaterEq |-> GreaterEq(u, v), notEqual |-> NotEqual(u, v)])

InitCompare ==
    /\ class = "UnsignedInteger"
    /\ u \in CompareOperands /\ v \in CompareOperands
    /\ s = DefaultSigned /\ t = DefaultSigned
    /\ Started

NextCompare == UCompare

SpecCompare == InitCompare /\ [][NextCompare]_vars

\* --------------------------------------------------------- signed sums
\* s starts as the sum a + b of two operands, as operator+ returns it, and
\* t as an operand; the runs add t to s and subtract it.
SumLimbVals == {0, 2, Base - 1}
SumOperands ==
    {Signed(d, sg) : d \in Magnitudes(MaxLen, SumLimbVals), sg \in BOOLEAN} \ {Signed(<<0>>, TRUE)}

InitSum ==
    /\ class = "SignedInteger"
    /\ u = DefaultUnsigned /\ v = DefaultUnsigned
    /\ s \in {SignedAddAssign(a, b) : a \in SumOperands, b \in SumOperands}
    /\ t \in SumOperands
    /\ Started

NextSum == SAddAssign \/ SSubAssign

SpecSum == InitSum /\ [][NextSum]_vars

\* ------------------------------------------------------ reciprocal runs
\* u.computeInverse(p) for the precisions from Len(u) + BruteforceThreshold
\* on; the reciprocal is returned.
UComputeInverse == UnsignedOnce /\
    \E extra \in 0..MaxExtraPrecision :
        IF computeInverse(u, Len(u) + BruteforceThreshold + extra) = Thrown
        THEN Finish("u.computeInverse(p)", Len(u) + BruteforceThreshold + extra, u, s, t,
                    "invalid_argument", NoReturn)
        ELSE Finish("u.computeInverse(p)", Len(u) + BruteforceThreshold + extra, u, s, t, "none",
                    Returns(computeInverse(u, Len(u) + BruteforceThreshold + extra)))

InitInverse ==
    /\ class = "UnsignedInteger"
    /\ u \in Shapes(MaxInverseLen) /\ v = DefaultUnsigned
    /\ s = DefaultSigned /\ t = DefaultSigned
    /\ Started

NextInverse == UComputeInverse

SpecInverse == InitInverse /\ [][NextInverse]_vars

\* ------------------------------------------------- both product paths
\* The product of u and v as each branch of operator*= computes it, whatever
\* the operands' lengths; both are returned.
UMultiplyBothWays == UnsignedOnce /\
    Finish("transform(u, v), schoolbook(u, v)", NoArgument, u, s, t, "none",
           [transform |-> TransformMultiply(u, v), schoolbook |-> SchoolbookMultiply(u, v)])

NextProduct == UMultiplyBothWays

SpecProduct == InitMul /\ [][NextProduct]_vars

\* -------------------------------------------------------------- threads
\* Threads that each work on values of their own.  A step is one stage of an
\* operation between two uses of scratch, so that the stages of different
\* threads interleave in every order.
Threads == 1..NumThreads

\* Mutant of ScratchOf: the scratch variables are static, one instance for
\* all threads.
ScratchShared(k) == 1

\* `thread_local`: the instance of a scratch variable that thread k names.
ScratchOf(k) == k

\* The thread_local variables before their first use: result and
\* resultLength of operator const char*, firstArray, secondArray and
\* allocatedSize of operator*=, and the length of detail::T.
NewScratch ==
    [result |-> <<>>, resultLength |-> 0,
     firstArray |-> <<>>, secondArray |-> <<>>, allocatedSize |-> 0, twiddleLength |-> 1]

\* The contents of `new char[n]`.
Indeterminate == <<"?">>

\* detail::log2.
RECURSIVE log2(_)
log2(n) == IF n <= 1 THEN 0 ELSE 1 + log2(n \div 2)

\* `transformLength = 2u << detail::log2(resultLength - 1)`.
TransformLength(resultLength) == 2 * 2^log2(resultLength - 1)

\* The digit loop of operator const char* on the top limb: at least one
\* digit, written backwards from result + 8.
RECURSIVE TopDigits(_, _)
TopDigits(number, written) ==
    IF number \div 10 # 0 THEN TopDigits(number \div 10, <<DigitChars[(number % 10) + 1]>> \o written)
    ELSE <<DigitChars[(number % 10) + 1]>> \o written

\* The text operator const char* leaves in `result`, up to its NUL.
CString(d) == AppendLow(d, Len(d) - 1, TopDigits(At(d, Len(d) - 1), <<>>))

\* `new std::complex<double>[transformLength]()`, and the memset of a used one.
ZeroArray(n) == [i \in 1..n |-> <<0, 0>>]

\* `firstArray[i] = {double(digits[i] % 10000u), double(digits[i] / 10000u)}`
\* on a zeroed array.
LoadArray(d, n) == [i \in 1..n |-> IF i <= Len(d) THEN <<d[i] % HalfBase, d[i] \div HalfBase>> ELSE <<0, 0>>]

\* The limbs an array was loaded from.
Loaded(array, n) == [i \in 1..n |-> array[i][1] + HalfBase * array[i][2]]

\* firstArray after the two forward transforms, the pointwise product and
\* the inverse transform, idealised as for TransformMultiply.
TransformedArray(first, second, n, m) ==
    [i \in 1..Len(first) |-> <<ConvolveReal(Loaded(first, n), Loaded(second, m), i - 1),
                                ConvolveImag(Loaded(first, n), Loaded(second, m), i - 1)>>]

\* The carry loop of the transform path, reading the array.
RECURSIVE CarryArray(_, _, _, _)
CarryArray(array, resultLength, carry, out) ==
    IF Len(out) = resultLength THEN out
    ELSE LET c == U64(carry + array[Len(out) + 1][1] + array[Len(out) + 1][2] * HalfBase)
         IN CarryArray(array, resultLength, c \div Base, Append(out, U32(c % Base)))

\* TransformHelper::resize, as far as the cache's length goes.
ResizedLength(length, transformLength) ==
    IF transformLength > 2 * length THEN transformLength \div 2 ELSE length

Touch(k) == [thread |-> k, slot |-> ScratchOf(k)]
Mine(k) == scratch[ScratchOf(k)]

\* Thread k moves on: its record changes, and so may its scratch instance.
Move(k, fields, touched, instance) ==
    /\ thread' = [thread EXCEPT ![k] = fields]
    /\ scratch' = IF touched THEN [scratch EXCEPT ![ScratchOf(k)] = instance] ELSE scratch
    /\ access' = IF touched THEN Touch(k) ELSE NoAccess
    /\ UNCHANGED <<objectVars, driver, division, helper, storage>>

\* The operations thread k has begun, and those of all threads: a run is
\* MaxThreadOps operations long.
Begun(k) == thread[k].done + (IF thread[k].pc = "ready" THEN 0 ELSE 1)
AllBegun == SumOf([k \in Threads |-> Begun(k)], 1, NumThreads)
Ready(k) == thread[k].pc = "ready" /\ AllBegun < MaxThreadOps

\* An operation of thread k ends: what it returned, what the same operation
\* returns when run alone, and the borrowed pointer the thread now holds.
Ended(k, returned, alone, pointer) ==
    [thread[k] EXCEPT !.pc = "ready", !.done = @ + 1, !.out = returned, !.want = alone,
                      !.pointer = pointer, !.seen = IF pointer # 0 THEN returned ELSE <<>>]

\* static_cast<const char*>(x), or stream << x, which calls it: the
\* conversion begins.  The pointer borrowed earlier is not used from here on.
TConvert == \E k \in Threads : \E call \in {"const char*", "operator<<"} :
    /\ Ready(k)
    /\ Move(k, [thread[k] EXCEPT !.pc = "convert:size", !.call = call, !.pointer = 0, !.seen = <<>>],
            FALSE, NewScratch)

\* `if (resultLength < (length << 3 | 7)) delete[] result, result = new char[...]`.
TConvertSize == \E k \in Threads :
    /\ thread[k].pc = "convert:size"
    /\ Move(k, [thread[k] EXCEPT !.pc = "convert:write"], TRUE,
            IF Mine(k).resultLength < Len(thread[k].x) * DigitsPerLimb + DigitsPerLimb - 1
            THEN [Mine(k) EXCEPT !.result = Indeterminate,
                                 !.resultLength = Len(thread[k].x) * DigitsPerLimb + DigitsPerLimb - 1]
            ELSE Mine(k))

\* The digits and the NUL are written.
TConvertWrite == \E k \in Threads :
    /\ thread[k].pc = "convert:write"
    /\ Move(k, [thread[k] EXCEPT !.pc = "convert:return"], TRUE,
            [Mine(k) EXCEPT !.result = CString(thread[k].x)])

\* The pointer is returned and the text behind it read: by the caller, or by
\* operator<<, which returns no pointer.
TConvertReturn == \E k \in Threads :
    /\ thread[k].pc = "convert:return"
    /\ Move(k, Ended(k, Mine(k).result, CString(thread[k].x),
                     IF thread[k].call = "const char*" THEN ScratchOf(k) ELSE 0),
            TRUE, Mine(k))

\* std::string(x): no scratch; a pointer borrowed earlier stays.
TString == \E k \in Threads :
    /\ Ready(k)
    /\ Move(k, [thread[k] EXCEPT !.done = @ + 1, !.call = "std::string",
                                 !.out = OperatorString(thread[k].x), !.want = OperatorString(thread[k].x)],
            FALSE, NewScratch)

\* x *= y begins, for a long or a short y: the schoolbook path and a failed
\* validity check end it at once, the transform path goes on to its buffers.
TMultiply == \E k \in Threads : \E y \in {Ramp(BruteforceThreshold), <<k + 1>>} :
    /\ Ready(k)
    /\ IF Len(thread[k].x) < BruteforceThreshold \/ Len(y) < BruteforceThreshold
          \/ Len(thread[k].x) > TransformLimit \/ Len(y) > TransformLimit
       THEN Move(k, [thread[k] EXCEPT !.done = @ + 1, !.call = "operator*=", !.y = y,
                                      !.x = IF MulAssign(thread[k].x, y) = Thrown THEN @
                                            ELSE MulAssign(thread[k].x, y),
                                      !.out = MulAssign(thread[k].x, y),
                                      !.want = MulAssign(thread[k].x, y)],
                 FALSE, NewScratch)
       ELSE Move(k, [thread[k] EXCEPT !.pc = "multiply:allocate", !.call = "operator*=", !.y = y],
                 FALSE, NewScratch)

\* `if (allocatedSize < transformLength) delete[] ..., firstArray = new ...`.
TMultiplyAllocate == \E k \in Threads :
    /\ thread[k].pc = "multiply:allocate"
    /\ Move(k, [thread[k] EXCEPT !.pc = "multiply:load"], TRUE,
            IF Mine(k).allocatedSize < TransformLength(Len(thread[k].x) + Len(thread[k].y))
            THEN [Mine(k) EXCEPT !.firstArray = ZeroArray(TransformLength(Len(thread[k].x) + Len(thread[k].y))),
                                 !.secondArray = ZeroArray(TransformLength(Len(thread[k].x) + Len(thread[k].y))),
                                 !.allocatedSize = TransformLength(Len(thread[k].x) + Len(thread[k].y))]
            ELSE Mine(k))

\* The two memsets and the two loops that split the limbs into the arrays.
TMultiplyLoad == \E k \in Threads :
    /\ thread[k].pc = "multiply:load"
    /\ Move(k, [thread[k] EXCEPT !.pc = "multiply:transform"], TRUE,
            [Mine(k) EXCEPT !.firstArray = LoadArray(thread[k].x, Len(@)),
                            !.secondArray = LoadArray(thread[k].y, Len(@))])

\* detail::T.resize and the transforms, in place.
TMultiplyTransform == \E k \in Threads :
    /\ thread[k].pc = "multiply:transform"
    /\ Move(k, [thread[k] EXCEPT !.pc = "multiply:carry"], TRUE,
            [Mine(k) EXCEPT !.twiddleLength =
                                ResizedLength(@, TransformLength(Len(thread[k].x) + Len(thread[k].y))),
                            !.firstArray = TransformedArray(Mine(k).firstArray, Mine(k).secondArray,
                                                            Len(thread[k].x), Len(thread[k].y))])

\* The carry loop reads firstArray; the trimmed result moves into x.
TMultiplyCarry == \E k \in Threads :
    /\ thread[k].pc = "multiply:carry"
    /\ Move(k, [Ended(k, Trim(CarryArray(Mine(k).firstArray, Len(thread[k].x) + Len(thread[k].y), 0, <<>>)),
                      MulAssign(thread[k].x, thread[k].y), thread[k].pointer)
                EXCEPT !.x = Trim(CarryArray(Mine(k).firstArray, Len(thread[k].x) + Len(thread[k].y), 0, <<>>)),
                       !.seen = thread[k].seen],
            TRUE, Mine(k))

\* Thread k starts with x a ramp of BruteforceThreshold limbs with k as its
\* lowest limb.
ThreadValue(k) == Put(Ramp(BruteforceThreshold), 0, k)

NewThread(x) ==
    [pc |-> "ready", call |-> "none", x |-> x, y |-> DefaultUnsigned,
     pointer |-> 0, seen |-> <<>>, out |-> <<>>, want |-> <<>>, done |-> 0]

InitThreads ==
    /\ class = "threads"
    /\ u = DefaultUnsigned /\ v = DefaultUnsigned /\ s = DefaultSigned /\ t = DefaultSigned
    /\ op = "init" /\ arg = NoArgument /\ err = "none" /\ ret = NoReturn /\ steps = 0
    /\ pre = Objects
    /\ thread = [k \in Threads |-> NewThread(ThreadValue(k))]
    /\ scratch = [k \in Threads |-> NewScratch]
    /\ access = NoAccess
    /\ NoDriver
    /\ NoDivision
    /\ NoHelper /\ NoStorage

NextThreads ==
    \/ TConvert \/ TConvertSize \/ TConvertWrite \/ TConvertReturn
    \/ TString
    \/ TMultiply \/ TMultiplyAllocate \/ TMultiplyLoad \/ TMultiplyTransform \/ TMultiplyCarry

SpecThreads == InitThreads /\ [][NextThreads]_vars

\* ------------------------------------------------------- the CLI driver
\* A line of standard input is a sequence of characters.  The driver holds
\* its position (status, code), the lines it has read, the lines it has
\* written to standard output, and the thread_local buffer of
\* UnsignedInteger::operator const char*: resultLength, and whether a
\* conversion wrote in front of the buffer (damaged).
Blank == {" ", "\t"}

\* trim: std::isspace characters leave both ends of the line.
RECURSIVE trimFront(_)
trimFront(line) == IF Len(line) > 0 /\ Head(line) \in Blank THEN trimFront(Tail(line)) ELSE line
RECURSIVE trimBack(_)
trimBack(line) ==
    IF Len(line) > 0 /\ line[Len(line)] \in Blank THEN trimBack(SubSeq(line, 1, Len(line) - 1)) ELSE line
trim(line) == trimBack(trimFront(line))

\* The words `iss >> word` extracts one after another: the runs of
\* characters between white space.
RECURSIVE Words(_, _, _)
Words(line, current, found) ==
    IF Len(line) = 0 THEN (IF Len(current) > 0 THEN Append(found, current) ELSE found)
    ELSE IF Head(line) \in Blank
         THEN Words(Tail(line), <<>>, IF Len(current) > 0 THEN Append(found, current) ELSE found)
         ELSE Words(Tail(line), Append(current, Head(line)), found)

\* The n-th word extracted, empty when the extraction failed.
Word(words, n) == IF n <= Len(words) THEN words[n] ELSE <<>>

WordU == <<"U">>
WordS == <<"S">>
WordAdd == <<"a", "d", "d">>
WordSub == <<"s", "u", "b">>
WordMul == <<"m", "u", "l">>
WordDiv == <<"d", "i", "v">>
WordMod == <<"m", "o", "d">>
WordCmp == <<"c", "m", "p">>
WordToStr == <<"t", "o", "_", "s", "t", "r">>
WordToU64 == <<"t", "o", "_", "u", "6", "4">>
WordToS64 == <<"t", "o", "_", "s", "6", "4">>
WordToDouble == <<"t", "o", "_", "d", "o", "u", "b", "l", "e">>
Arithmetic == {WordAdd, WordSub, WordMul, WordDiv, WordMod}
TwoOperandOps == Arithmetic \cup {WordCmp}

\* A response line is its first word and the text after "OK " or "EXC ".
OkLine(text) == [tag |-> "OK", text |-> text]
ExcLine(message) == [tag |-> "EXC", text |-> message]

\* What a line's computation leaves to print: an UnsignedInteger or a
\* SignedInteger (printed through operator<<), a text, or an exception.
PrintUnsigned(d) == [kind |-> "UnsignedInteger", value |-> d]
PrintSigned(x) == [kind |-> "SignedInteger", value |-> x]
PrintText(text) == [kind |-> "text", value |-> text]
Caught == [kind |-> "exception", value |-> "e.what()"]
Refused(message) == [kind |-> "refusal", value |-> message]
CaughtIfThrown(d) == IF d = Thrown THEN Caught ELSE PrintUnsigned(d)

\* `std::cout << v` of a native integer, and of a double with fixed
\* notation and precision 0 (a magnitude a double holds exactly).
IntegerText(n) == IF n < 0 THEN <<"-">> \o Decimal(-n) ELSE Decimal(n)

ULongLong == NativeType("unsigned long long", Wrap64, FALSE)
LongLong == NativeType("long long", Wrap64, TRUE)

\* UnsignedInteger(const char*): the two validity checks on the text.
UnsignedAccepts(text) == Len(text) > 0 /\ AllDigits(text)

\* The branch `type == "U"` past the construction of ua (and ub).
UnsignedBranch(command, a, b) ==
    IF command = WordToStr THEN PrintUnsigned(a)
    ELSE IF command = WordToU64 THEN PrintText(IntegerText(UnsignedToNative(ULongLong, a)))
    ELSE IF command = WordToDouble THEN PrintText(IntegerText(Value(a)))
    ELSE IF command = WordAdd THEN CaughtIfThrown(OperatorPlus(a, b))
    ELSE IF command = WordSub THEN CaughtIfThrown(OperatorMinus(a, b))
    ELSE IF command = WordMul THEN CaughtIfThrown(OperatorTimes(a, b))
    ELSE IF command = WordDiv
         THEN (IF Bool(b) THEN CaughtIfThrown(divisionAndModulus(a, b).first) ELSE Caught)
    ELSE IF command = WordMod
         THEN (IF Bool(b) THEN CaughtIfThrown(divisionAndModulus(a, b).second) ELSE Caught)
    ELSE PrintText(IntegerText(IF Less(a, b) THEN -1 ELSE IF Equal(a, b) THEN 0 ELSE 1))

\* The branch `type == "U"`: the op is looked up first, then the operands
\* are constructed, a before b.
UnsignedLine(command, a, b) ==
    IF command \in {WordToStr, WordToU64, WordToDouble}
    THEN (IF UnsignedAccepts(a) THEN UnsignedBranch(command, construct(a), DefaultUnsigned) ELSE Caught)
    ELSE IF command \in TwoOperandOps
         THEN (IF UnsignedAccepts(a) /\ UnsignedAccepts(b)
               THEN UnsignedBranch(command, construct(a), construct(b)) ELSE Caught)
         ELSE Refused("unknown op")

SignedAccepts(text) == ~SignedAssignString(DefaultSigned, text).thrown

\* The branch `type == "S"` past the construction of sa (and sb).
SignedBranch(command, a, b) ==
    IF command = WordToStr THEN PrintSigned(a)
    ELSE IF command = WordToS64 THEN PrintText(IntegerText(SignedToNative(LongLong, a)))
    ELSE IF command = WordToU64
         THEN (IF a.sign THEN Caught ELSE PrintText(IntegerText(UnsignedToNative(ULongLong, a.absolute))))
    ELSE IF command = WordToDouble
         THEN PrintText(IF a.sign THEN <<"-">> \o Decimal(Value(a.absolute))
                        ELSE Decimal(Value(a.absolute)))
    ELSE IF command = WordAdd THEN PrintSigned(SignedAddAssign(a, b))
    ELSE IF command = WordSub THEN PrintSigned(SignedSubAssign(a, b))
    ELSE IF command = WordMul THEN PrintSigned(SignedMulAssign(a, b))
    ELSE IF command = WordDiv
         THEN (IF Bool(b.absolute) THEN PrintSigned(SignedDivAssign(a, b)) ELSE Caught)
    ELSE IF command = WordMod
         THEN (IF Bool(b.absolute) THEN PrintSigned(SignedModAssign(a, b)) ELSE Caught)
    ELSE PrintText(IntegerText(IF SignedLess(a, b) THEN -1 ELSE IF SignedEqual(a, b) THEN 0 ELSE 1))

SignedLine(command, a, b) ==
    IF command \in {WordToStr, WordToS64, WordToU64, WordToDouble}
    THEN (IF SignedAccepts(a) THEN SignedBranch(command, ParseSigned(a), DefaultSigned) ELSE Caught)
    ELSE IF command \in TwoOperandOps
         THEN (IF SignedAccepts(a) /\ SignedAccepts(b)
               THEN SignedBranch(command, ParseSigned(a), ParseSigned(b)) ELSE Caught)
         ELSE Refused("unknown op")

\* The try block of main for the words of one line.
TryBlock(type, command, a, b) ==
    IF type = WordU THEN UnsignedLine(command, a, b)
    ELSE IF type = WordS THEN SignedLine(command, a, b)
    ELSE Refused("unknown type")

LineResultUnchecked(words) ==
    IF Len(Word(words, 1)) = 0 \/ Len(Word(words, 2)) = 0 \/ Len(Word(words, 3)) = 0
    THEN Refused("invalid input")
    ELSE TryBlock(Word(words, 1), Word(words, 2), Word(words, 3), Word(words, 4))

\* One pass of the loop body for a line that is not blank: the checks on the
\* words read, then the try block.
LineResult(words) ==
    IF Len(Word(words, 1)) = 0 \/ Len(Word(words, 2)) = 0 \/ Len(Word(words, 3)) = 0
    THEN Refused("invalid input")
    ELSE IF Word(words, 2) \in TwoOperandOps /\ Len(words) < 4 THEN Refused("missing operand")
    ELSE TryBlock(Word(words, 1), Word(words, 2), Word(words, 3), Word(words, 4))

\* The response line printed for a result.
ResponseLine(result) ==
    IF result.kind = "UnsignedInteger" THEN OkLine(CString(result.value))
    ELSE IF result.kind = "SignedInteger"
         THEN OkLine(IF result.value.sign /\ Bool(result.value.absolute)
                     THEN <<"-">> \o CString(result.value.absolute)
                     ELSE CString(result.value.absolute))
    ELSE IF result.kind \in {"exception", "refusal"} THEN ExcLine(result.value)
    ELSE OkLine(result.value)

\* The magnitude operator<< converts for a result, if any.
Converted(result) ==
    IF result.kind = "UnsignedInteger" THEN result.value
    ELSE IF result.kind = "SignedInteger" THEN result.value.absolute
    ELSE <<>>

\* The size operator const char* wants for d: length << 3 | 7.
WantedLength(d) == Len(d) * DigitsPerLimb + DigitsPerLimb - 1

\* The top limb's digits are written backwards from result + 8 (scaled:
\* result + DigitsPerLimb): more digits than that start in front of the array.
WritesInFront(d) == Len(TopDigits(At(d, Len(d) - 1), <<>>)) > DigitsPerLimb

\* Whether the conversion of d frees a buffer whose block a write in front
\* of it damaged.
FreesDamaged(buffer, d) ==
    Len(d) > 0 /\ buffer.resultLength < WantedLength(d) /\ buffer.damaged

\* The buffer after the conversion of d.
BufferAfter(buffer, d) ==
    IF Len(d) = 0 THEN buffer
    ELSE [resultLength |-> IF buffer.resultLength < WantedLength(d) THEN WantedLength(d)
                           ELSE buffer.resultLength,
          damaged |-> (buffer.damaged /\ ~(buffer.resultLength < WantedLength(d))) \/ WritesInFront(d)]

\* The input lines tried: every op for U, S and an unknown type, each with
\* the operands it takes, then lines lacking an operand, lines whose
\* operation throws, values longer than the first, blank lines and lines
\* with white space around the words.
Nines == <<"9", "9", "9", "9">>
One == <<"1">>
Spaced(words) ==
    IF Len(words) = 0 THEN <<>>
    ELSE words[1] \o (IF Len(words) > 1 THEN <<" ">> \o words[2] ELSE <<>>)
                  \o (IF Len(words) > 2 THEN <<" ">> \o words[3] ELSE <<>>)
                  \o (IF Len(words) > 3 THEN <<" ">> \o words[4] ELSE <<>>)
TypeWords == {WordU, WordS, <<"X">>}
OneOperandOps == {WordToStr, WordToU64, WordToS64, WordToDouble}
OtherOp == <<"f", "o", "o">>
Lines ==
    {Spaced(<<type, command, Nines, One>>) : type \in TypeWords, command \in TwoOperandOps}
    \cup {Spaced(<<type, command, Nines>>) : type \in TypeWords, command \in OneOperandOps \cup {OtherOp}}
    \cup {Spaced(<<type, command, One>>) : type \in TypeWords, command \in {WordAdd, WordCmp}}
    \cup {Spaced(<<type, command>>) : type \in {WordU, WordS}, command \in {WordToStr, WordAdd}}
    \cup {Spaced(<<WordU>>),
          Spaced(<<WordU, WordDiv, One, <<"0">>>>), Spaced(<<WordS, WordMod, One, <<"0">>>>),
          Spaced(<<WordU, WordSub, One, Nines>>), Spaced(<<WordU, WordToStr, <<"1", "x">>>>),
          Spaced(<<WordS, WordToU64, <<"-", "5">>>>), Spaced(<<WordS, WordToStr, <<"-">>>>),
          Spaced(<<WordS, WordToDouble, <<"-", "0">>>>),
          Spaced(<<WordU, WordToStr, <<"1", "2", "3", "4", "5", "6">>>>),
          Spaced(<<WordS, WordToStr, <<"-", "1", "2", "3", "4", "5", "6">>>>),
          <<>>, <<" ">>, <<"\t", " ">>,
          <<" ", " ">> \o WordU \o <<" ", "\t">> \o WordAdd \o <<" ">> \o One \o <<" ", " ">> \o One \o <<"\t">>}

NewDriver ==
    [status |-> "running", code |-> 0, read |-> <<>>, output |-> <<>>,
     buffer |-> [resultLength |-> 0, damaged |-> FALSE]]

\* std::getline returned a line: the body of the loop.  Freeing a damaged
\* block is undefined: the allocator goes on (aborts = FALSE) or aborts the
\* process, and what std::cout had buffered is lost.
DriverLine == \E line \in Lines : \E aborts \in BOOLEAN :
    /\ driver.status = "running" /\ Len(driver.read) < MaxLines
    /\ driver' =
         IF Len(trim(line)) = 0 THEN [driver EXCEPT !.read = Append(@, line)]
         ELSE IF FreesDamaged(driver.buffer, Converted(LineResult(Words(trim(line), <<>>, <<>>)))) /\ aborts
              THEN [driver EXCEPT !.read = Append(@, line), !.status = "aborted", !.code = 134,
                                  !.output = <<>>]
              ELSE [driver EXCEPT !.read = Append(@, line),
                                  !.output = Append(@, ResponseLine(LineResult(Words(trim(line), <<>>, <<>>)))),
                                  !.buffer = BufferAfter(@, Converted(LineResult(Words(trim(line), <<>>, <<>>))))]
    /\ UNCHANGED <<objectVars, threadVars, division, helper, storage>>

\* std::getline failed at the end of input: `return 0`.
DriverEnd ==
    /\ driver.status = "running"
    /\ driver' = [driver EXCEPT !.status = "exited", !.code = 0]
    /\ UNCHANGED <<objectVars, threadVars, division, helper, storage>>

InitDriver ==
    /\ class = "driver"
    /\ u = DefaultUnsigned /\ v = DefaultUnsigned /\ s = DefaultSigned /\ t = DefaultSigned
    /\ op = "init" /\ arg = NoArgument /\ err = "none" /\ ret = NoReturn /\ steps = 0
    /\ pre = Objects
    /\ NoThreads
    /\ driver = NewDriver
    /\ NoDivision
    /\ NoHelper /\ NoStorage

NextDriver == DriverLine \/ DriverEnd

SpecDriver == InitDriver /\ [][NextDriver]_vars

\* ------------------------------------------------- division, loop by loop
\* u / v with the loops of bruteforceDivisionAndModulus and of
\* divisionAndModulus taken one iteration at a time.  division holds the
\* position of the call (pc), currentPosition (pos), the arrays remainder
\* and quotient of the schoolbook path (rem, with the word one past its end,
\* and quot), the objects quotient and remainder of the Newton path and of
\* the result, and what the iterations did: the estimate rounds and final
\* subtractions at the current position, the corrections down and up,
\* whether a subtraction borrowed past the window (negative) and whether a
\* window was left not less than the divisor (unreduced).
NewDivision ==
    [pc |-> "operands", pos |-> 0, rem |-> <<>>, quot |-> <<>>,
     estimate |-> <<0>>, quotient |-> <<0>>, remainder |-> <<0>>,
     rounds |-> 0, finals |-> 0, downs |-> 0, ups |-> 0,
     negative |-> FALSE, unreduced |-> FALSE]

\* partialQuotient as the estimate loop computes it.
partialQuotientRounded(rem, divisor, pos, n) ==
    U32(getEstimatedValue(rem, pos + Len(divisor) - 1, n)
        \div getEstimatedValue(divisor, Len(divisor) - 1, Len(divisor)))
partialQuotient(rem, divisor, pos, n) ==
    U32(getEstimatedValue(rem, pos + Len(divisor) - 1, n)
        \div (getEstimatedValue(divisor, Len(divisor) - 1, Len(divisor)) + 1))

\* Whether performSubtraction ends with a borrow larger than the limb above
\* the divisor's limbs: the remainder went below zero.
BorrowsPast(limbs, index) == At(limbs.rem, index) + limbs.carry < 0
GoesNegative(rem, divisor, pos, pq) ==
    BorrowsPast(SubtractLimbs([rem |-> rem, carry |-> 0], divisor, pos, pq, 0), pos + Len(divisor))

\* Whether the window at pos is still not less than the divisor.
NotReduced(rem, divisor, pos) ==
    At(rem, pos + Len(divisor)) # 0 \/ WindowNotLess(rem, divisor, pos, Len(divisor)) = 1

Dividing(pc) == class = "division" /\ division.pc = pc

\* The operands of the call: a dividend and a divisor that is not zero.
DividePairs ==
    (Dividends \X (Divisors \ {<<0>>}))
        \cup {<<RefMulAdd(m, y, r), y>> : y \in Divisors \ {<<0>>}, m \in Multipliers, r \in {<<0>>, <<1>>}}

\* The first estimate of the quotient for a pair that takes the Newton path:
\* the code from precisionBits to the right shift, which has no loop of its
\* own.  It is a function of the operands and is kept with them.
EstimateFor(x, other) ==
    IF ~Less(x, other) /\ Len(x) >= BruteforceThreshold /\ Len(other) >= BruteforceThreshold
    THEN NewtonEstimate(x, other)
    ELSE <<0>>

\* divisionAndModulus up to the first loop: the early return, the choice of
\* the path, the arrays of the schoolbook path or the Newton estimate.
DStart ==
    /\ Dividing("start")
    /\ division' =
         IF Less(u, v) THEN [division EXCEPT !.pc = "done", !.quotient = <<0>>, !.remainder = u]
         ELSE IF Len(u) < BruteforceThreshold \/ Len(v) < BruteforceThreshold
              THEN [division EXCEPT !.pc = "estimate", !.pos = Len(u) - Len(v),
                                    !.rem = u \o <<0>>, !.quot = Zeros(Len(u) - Len(v) + 1)]
              ELSE [division EXCEPT !.pc = "down", !.quotient = division.estimate]
    /\ UNCHANGED <<objectVars, threadVars, driver, helper, storage>>

\* One test of the estimate loop: a non-zero partialQuotient is subtracted,
\* a zero one ends the loop.
DEstimate ==
    /\ Dividing("estimate")
    /\ division' =
         IF partialQuotient(division.rem, v, division.pos, Len(u)) # 0
         THEN [division EXCEPT
                 !.rem = performSubtraction([rem |-> division.rem, quot |-> division.quot], v,
                            division.pos, partialQuotient(division.rem, v, division.pos, Len(u))).rem,
                 !.quot = performSubtraction([rem |-> division.rem, quot |-> division.quot], v,
                            division.pos, partialQuotient(division.rem, v, division.pos, Len(u))).quot,
                 !.rounds = @ + 1,
                 !.negative = @ \/ GoesNegative(division.rem, v, division.pos,
                                     partialQuotient(division.rem, v, division.pos, Len(u)))]
         ELSE [division EXCEPT !.pc = "final"]
    /\ UNCHANGED <<objectVars, threadVars, driver, helper, storage>>

\* The rest of the body for one position: the comparison of the window with
\* the divisor and the subtraction it may ask for; then the next position,
\* or past the last one the two trimming loops and the return.
DFinal ==
    /\ Dividing("final")
    /\ division' =
         [division EXCEPT
            !.rem = FinalSubtraction([rem |-> division.rem, quot |-> division.quot], v, division.pos).rem,
            !.quot = FinalSubtraction([rem |-> division.rem, quot |-> division.quot], v, division.pos).quot,
            !.finals = IF WindowNotLess(division.rem, v, division.pos, Len(v)) = 1 THEN 1 ELSE 0,
            !.negative = @ \/ (WindowNotLess(division.rem, v, division.pos, Len(v)) = 1
                               /\ GoesNegative(division.rem, v, division.pos, 1)),
            !.unreduced = @ \/ NotReduced(
                FinalSubtraction([rem |-> division.rem, quot |-> division.quot], v, division.pos).rem,
                v, division.pos),
            !.pc = "next"]
    /\ UNCHANGED <<objectVars, threadVars, driver, helper, storage>>

DNext ==
    /\ Dividing("next")
    /\ division' =
         IF division.pos = 0
         THEN [division EXCEPT !.pc = "done", !.quotient = Trim(division.quot),
                               !.remainder = Trim(SubSeq(division.rem, 1, Len(u)))]
         ELSE [division EXCEPT !.pc = "estimate", !.pos = @ - 1, !.rounds = 0, !.finals = 0]
    /\ UNCHANGED <<objectVars, threadVars, driver, helper, storage>>

\* One test of `while (quotient * other > *this) --quotient;`, and past the
\* loop `remainder = *this - quotient * other`.
DCorrectDown ==
    /\ Dividing("down")
    /\ division' =
         IF Greater(MulAssign(division.quotient, v), u)
         THEN [division EXCEPT !.quotient = OperatorDecrement(@), !.downs = @ + 1]
         ELSE [division EXCEPT !.pc = "up", !.remainder = SubAssign(u, MulAssign(division.quotient, v))]
    /\ UNCHANGED <<objectVars, threadVars, driver, helper, storage>>

\* One test of `for (; remainder >= other; ++quotient, remainder -= other);`,
\* and past the loop the return.
DCorrectUp ==
    /\ Dividing("up")
    /\ division' =
         IF GreaterEq(division.remainder, v)
         THEN [division EXCEPT !.quotient = Increment(@), !.remainder = SubAssign(@, v), !.ups = @ + 1]
         ELSE [division EXCEPT !.pc = "done"]
    /\ UNCHANGED <<objectVars, threadVars, driver, helper, storage>>

\* The call is made with a pair of operands.
DOperands ==
    /\ Dividing("operands")
    /\ \E pair \in DividePairs : u' = pair[1] /\ v' = pair[2]
    /\ division' = [division EXCEPT !.pc = "start", !.estimate = EstimateFor(u', v')]
    /\ UNCHANGED <<class, s, t, op, arg, err, pre, ret, steps, threadVars, driver, helper, storage>>

InitDivide ==
    /\ class = "division"
    /\ u = DefaultUnsigned /\ v = DefaultUnsigned
    /\ s = DefaultSigned /\ t = DefaultSigned
    /\ op = "init" /\ arg = NoArgument /\ err = "none" /\ ret = NoReturn /\ steps = 0
    /\ pre = Objects
    /\ NoThreads /\ NoDriver /\ NoHelper /\ NoStorage
    /\ division = NewDivision

NextDivide == DOperands \/ DStart \/ DEstimate \/ DFinal \/ DNext \/ DCorrectDown \/ DCorrectUp

SpecDivide == InitDivide /\ [][NextDivide]_vars

\* --------------------------------------------------- the twiddle cache
\* detail::TransformHelper: twiddleFactors and length.  A twiddle factor is
\* a point of the unit circle, kept as its angle, the fraction num / den of
\* pi in lowest terms.  helper also holds what the run compares: the cache
\* before the last resize (previous), the transformLength of that call
\* (requested), whether it allocated a new array (reallocated), and the
\* indices of twiddleFactors the transforms since have read (reads).
RECURSIVE Lowest(_, _)
Lowest(num, den) ==
    IF num = 0 THEN [num |-> 0, den |-> 1]
    ELSE IF num % 2 = 0 /\ den % 2 = 0 THEN Lowest(num \div 2, den \div 2)
    ELSE [num |-> num, den |-> den]

\* __builtin_ctz(i) for i # 0.
RECURSIVE ctz(_)
ctz(i) == IF i % 2 = 1 THEN 0 ELSE 1 + ctz(i \div 2)

\* phaseAccumulator when the loop of resize fills baseFactors[i]: it starts
\* at 0 and `phaseAccumulator -= halfSize - (j >> __builtin_ctz(++i))`, in
\* std::uint32_t, with j = (halfSize * 3) >> 1.
RECURSIVE phaseAccumulator(_, _)
phaseAccumulator(i, halfSize) ==
    IF i = 0 THEN 0
    ELSE U32(phaseAccumulator(i - 1, halfSize)
             - U32(halfSize - (((halfSize * 3) \div 2) \div 2^ctz(i))))

\* twiddleFactors[i] as resize(transformLength) computes it:
\* baseFactors[i & (halfSize - 1)] * baseFactors[halfSize | (i >> halfLog)],
\* the polar forms of phase * pi / halfSize and of phase * pi / halfSize^2.
halfSizeOf(transformLength) == 2^(log2(transformLength) \div 2)
Twiddle(i, halfSize) ==
    Lowest(phaseAccumulator(i % halfSize, halfSize) * halfSize
               + phaseAccumulator(i \div halfSize, halfSize),
           halfSize * halfSize)

\* The test of resize.
NeedsNewFactorsLate(length, transformLength) == transformLength > 4 * length
NeedsNewFactors(length, transformLength) == transformLength > 2 * length

\* TransformHelper::resize: the new array takes the old entries (memcpy),
\* then the entries from length to transformLength / 2.
resize(h, transformLength) ==
    IF NeedsNewFactors(h.length, transformLength)
    THEN [length |-> transformLength \div 2,
          twiddleFactors |-> [i \in 1..(transformLength \div 2) |->
                                 IF i <= h.length THEN h.twiddleFactors[i]
                                 ELSE Twiddle(i - 1, halfSizeOf(transformLength))]]
    ELSE [length |-> h.length, twiddleFactors |-> h.twiddleFactors]

\* The indices twiddlePointer takes in decimationInFrequency: for each
\* blockSize from transformSize / 2 down to 1, one index per block after
\* the first, from 1 on.
RECURSIVE FrequencyReads(_, _)
FrequencyReads(blockSize, transformSize) ==
    IF blockSize = 0 THEN {}
    ELSE (1..(transformSize \div (2 * blockSize) - 1)) \cup FrequencyReads(blockSize \div 2, transformSize)

\* The same in decimationInTime, blockSize rising from 1.
RECURSIVE TimeReads(_, _)
TimeReads(blockSize, transformSize) ==
    IF blockSize = transformSize THEN {}
    ELSE (1..(transformSize \div (2 * blockSize) - 1)) \cup TimeReads(2 * blockSize, transformSize)

\* twiddleFactors[forwardIndex >> 1] in frequencyDomainPointwiseMultiply: the
\* blocks [2, 3), [4, 6), ... until blockStart reaches transformSize.
RECURSIVE PointwiseReads(_, _, _)
PointwiseReads(blockStart, blockEnd, transformSize) ==
    IF blockStart = transformSize THEN {}
    ELSE {forwardIndex \div 2 : forwardIndex \in blockStart..(blockEnd - 1)}
             \cup PointwiseReads(2 * blockStart, 2 * blockEnd, transformSize)

NewHelper ==
    [pc |-> "idle", length |-> 1, twiddleFactors |-> <<Lowest(0, 1)>>,
     previous |-> [length |-> 1, twiddleFactors |-> <<Lowest(0, 1)>>],
     requested |-> 0, reallocated |-> FALSE, reads |-> {}, calls |-> 0]

\* The lengths operator*= asks for: 2u << log2(resultLength - 1).
TransformLengths == {2^k : k \in 1..MaxTransformLog}

HelperAt(pc) == class = "helper" /\ helper.pc = pc
Others == <<objectVars, threadVars, driver, division, storage>>

\* detail::T.resize(transformLength) of a multiplication.
HResize == \E transformLength \in TransformLengths :
    /\ HelperAt("idle") /\ helper.calls < MaxResizes
    /\ helper' = [helper EXCEPT
                    !.pc = "forward",
                    !.length = resize(helper, transformLength).length,
                    !.twiddleFactors = resize(helper, transformLength).twiddleFactors,
                    !.previous = [length |-> helper.length, twiddleFactors |-> helper.twiddleFactors],
                    !.requested = transformLength,
                    !.reallocated = NeedsNewFactors(helper.length, transformLength),
                    !.reads = {},
                    !.calls = @ + 1]
    /\ UNCHANGED Others

\* The two decimationInFrequency calls.
HDecimationInFrequency ==
    /\ HelperAt("forward")
    /\ helper' = [helper EXCEPT
                    !.pc = "pointwise",
                    !.reads = @ \cup FrequencyReads(helper.requested \div 2, helper.requested)]
    /\ UNCHANGED Others

HPointwiseMultiply ==
    /\ HelperAt("pointwise")
    /\ helper' = [helper EXCEPT
                    !.pc = "inverse",
                    !.reads = @ \cup PointwiseReads(2, 3, helper.requested)]
    /\ UNCHANGED Others

HDecimationInTime ==
    /\ HelperAt("inverse")
    /\ helper' = [helper EXCEPT
                    !.pc = "idle",
                    !.reads = @ \cup TimeReads(1, helper.requested)]
    /\ UNCHANGED Others

InitHelper ==
    /\ class = "helper"
    /\ u = DefaultUnsigned /\ v = DefaultUnsigned /\ s = DefaultSigned /\ t = DefaultSigned
    /\ op = "init" /\ arg = NoArgument /\ err = "none" /\ ret = NoReturn /\ steps = 0
    /\ pre = Objects
    /\ NoThreads /\ NoDriver /\ NoDivision /\ NoStorage
    /\ helper = NewHelper

NextHelper == HResize \/ HDecimationInFrequency \/ HPointwiseMultiply \/ HDecimationInTime

SpecHelper == InitHelper /\ [][NextHelper]_vars

\* ------------------------------------------------- self-aliased addition
\* operator+= with other bound to *this.  `length <= other.length` holds, so
\* resize(other.length + 1) runs: it raises length, which is other.length
\* too, and the first loop's otherEnd = other.digits + other.length takes in
\* the new top limb; otherDigit and thisDigit walk the same array, so a limb
\* is added to itself after the carry from below has been added to it.  d
\* is the array followed by the word past its end.
RECURSIVE AddLimbsToSelf(_, _, _)
AddLimbsToSelf(d, i, length) ==
    IF i = length THEN d
    ELSE IF U32(At(d, i) + At(d, i)) >= Base
         THEN AddLimbsToSelf(Put(Put(d, i, U32(U32(At(d, i) + At(d, i)) - Base)),
                                 i + 1, U32(At(Put(d, i, U32(U32(At(d, i) + At(d, i)) - Base)), i + 1) + 1)),
                             i + 1, length)
         ELSE AddLimbsToSelf(Put(d, i, U32(At(d, i) + At(d, i))), i + 1, length)

\* The second loop starts at thisDigit = digits + length, one past thisEnd =
\* digits + length - 1, and reads that word, which the array does not hold:
\* a word below Base ends the loop, any other is written to and the loop
\* goes on through the memory behind the array.
AddAssignToSelf(a, beyond) ==
    [value |-> Trim(SubSeq(AddLimbsToSelf(a \o <<0, beyond>>, 0, Len(a) + 1), 1, Len(a) + 1)),
     overrun |-> At(AddLimbsToSelf(a \o <<0, beyond>>, 0, Len(a) + 1), Len(a) + 1) >= Base]

\* The word past the array, as far as the loop tells words apart.
WordsBeyond == {0, Base}

\* u += u.
UAddAssignSelf == UnsignedOnce /\
    \E beyond \in WordsBeyond :
        Finish("u += u", NoArgument, AddAssignToSelf(u, beyond).value, s, t,
               IF AddAssignToSelf(u, beyond).overrun THEN "overrun" ELSE "none", NoReturn)

\* s += s: sign == other.sign, so `absolute += other.absolute` with
\* other.absolute bound to absolute; then `sign = sign && bool(absolute)`.
SAddAssignSelf == SignedOnce /\
    \E beyond \in WordsBeyond :
        Finish("s += s", NoArgument, u,
               Signed(AddAssignToSelf(s.absolute, beyond).value,
                      s.sign /\ Bool(AddAssignToSelf(s.absolute, beyond).value)),
               t, IF AddAssignToSelf(s.absolute, beyond).overrun THEN "overrun" ELSE "none", NoReturn)

NextAlias == UAddAssignSelf \/ SAddAssignSelf

SpecAlias == Init /\ [][NextAlias]_vars

\* ------------------------------------------------------------ limb storage
\* The fields of one UnsignedInteger x: digits holds the first `length`
\* limbs (length is Len(digits)), capacity is the field, allocated the size
\* of the array that `digits` points to, and outside tells that a limb was
\* written at an index the array does not have.
BoolType == NativeType("bool", 2, FALSE)
StorageTypes == NativeTypes \cup {BoolType}

\* std::numeric_limits<T>::digits10 at the model's scale.  As in the source,
\* where a limb has 8 digits and digits10 is 0, 2, 4, 9 and 18 or 19, only
\* that of bool is a multiple of the digits of a limb.
digits10(type) ==
    CASE type.wrap = BoolType.wrap -> 0
      [] type.wrap = Wrap8 -> 1
      [] type.wrap = Wrap16 -> 1
      [] type.wrap = Wrap32 -> 3
      [] type.wrap = Wrap64 -> 7

\* `(std::numeric_limits<T>::digits10 + 7) >> 3`, the initialCapacity of the
\* constructors from a native integer and the least capacity of operator=.
initialCapacity(type) == (digits10(type) + DigitsPerLimb - 1) \div DigitsPerLimb

\* The loop `while (digits[length++] = std::uint32_t(value) % Base,
\* value /= T(Base));` writes limbs from index 0 up.  bool(Base) is true: a
\* bool is divided by 1 and keeps its value, so false ends the loop after
\* one limb and true never ends it.
Endless == <<-2>>
NativeLimbs(type, value) ==
    IF type = BoolType THEN (IF value = 0 THEN <<0>> ELSE Endless)
    ELSE FromNative(type, value, <<>>)

\* resize: `if (newLength > capacity) ... new std::uint32_t[capacity = newLength]`.
Resized(size, newLength) == IF newLength > size THEN newLength ELSE size

\* The state after UnsignedInteger().
NewStorage ==
    [outcome |-> "none", digits |-> <<0>>, capacity |-> 1, allocated |-> 1, outside |-> FALSE,
     calls |-> 0]

Storing ==
    /\ class = "storage"
    /\ storage.outcome \in {"none", "invalid_argument"}
    /\ ~storage.outside
    /\ storage.calls < MaxCalls

\* The object after the loop wrote `limbs` into an array of `allocated`
\* limbs: the division by T(Base) = 0 comes after the first limb is written.
AfterLoop(type, value, limbs, capacity, allocated) ==
    [outcome |-> IF limbs = DividesByZero THEN "division by zero"
                 ELSE IF limbs = Endless THEN "endless" ELSE "none",
     digits |-> IF limbs = DividesByZero \/ limbs = Endless THEN <<U32(value) % Base>> ELSE limbs,
     capacity |-> capacity,
     allocated |-> allocated,
     outside |-> IF limbs = DividesByZero THEN allocated < 1
                 ELSE IF limbs = Endless THEN TRUE ELSE Len(limbs) > allocated,
     calls |-> storage.calls + 1]

\* The check `value >= 0` of a signed T threw: x is as it was.
Refusing == [storage EXCEPT !.outcome = "invalid_argument", !.calls = @ + 1]

\* x = UnsignedInteger(T value): the protected constructor allocates
\* initialCapacity limbs with length 0, the loop fills them, and the move
\* assignment gives x the new array and fields.
StoreConstruct == Storing /\
    \E type \in StorageTypes : \E value \in NativeValues(type) :
        /\ storage' = IF type.signed /\ value < 0 THEN Refusing
                      ELSE AfterLoop(type, value, NativeLimbs(type, value),
                                     initialCapacity(type), initialCapacity(type))
        /\ UNCHANGED <<objectVars, threadVars, driver, division, helper>>

\* x = value for a native integer: a new array only where capacity is less
\* than (digits10 + 7) >> 3, then the loop from length 0.
StoreAssign == Storing /\
    \E type \in StorageTypes : \E value \in NativeValues(type) :
        /\ storage' = IF type.signed /\ value < 0 THEN Refusing
                      ELSE AfterLoop(type, value, NativeLimbs(type, value),
                                     Resized(storage.capacity, initialCapacity(type)),
                                     IF storage.capacity < initialCapacity(type)
                                     THEN initialCapacity(type) ELSE storage.allocated)
        /\ UNCHANGED <<objectVars, threadVars, driver, division, helper>>

\* The length operator+= works at: other.length + 1 if length <= other.length.
LengthToAdd(d, other) == IF Len(d) <= Len(other) THEN Len(other) + 1 ELSE Len(d)

\* x += other for another object: resize where length <= other.length; the
\* loops write limbs up to index length - 1 of the resized array.
StoreAddAssign == Storing /\
    \E other \in Magnitudes(MaxLen, LimbVals) :
        /\ storage' = [storage EXCEPT
                         !.outcome = "none",
                         !.digits = AddAssign(storage.digits, other),
                         !.capacity = Resized(@, LengthToAdd(storage.digits, other)),
                         !.allocated = IF LengthToAdd(storage.digits, other) > storage.capacity
                                       THEN LengthToAdd(storage.digits, other) ELSE @,
                         !.outside = LengthToAdd(storage.digits, other)
                                     > (IF LengthToAdd(storage.digits, other) > storage.capacity
                                        THEN LengthToAdd(storage.digits, other) ELSE storage.allocated),
                         !.calls = @ + 1]
        /\ UNCHANGED <<objectVars, threadVars, driver, division, helper>>

\* ++x: the loop writes up to index length - 1, and `resize(length + 1),
\* digits[length - 2] -= Base, digits[length - 1] = 1` where the top limb
\* reached Base.
StoreIncrement == Storing /\
    /\ storage' = [storage EXCEPT
                     !.outcome = "none",
                     !.digits = Increment(storage.digits),
                     !.capacity = Resized(@, Len(Increment(storage.digits))),
                     !.allocated = IF Len(Increment(storage.digits)) > storage.capacity
                                   THEN Len(Increment(storage.digits)) ELSE @,
                     !.outside = Len(Increment(storage.digits))
                                 > (IF Len(Increment(storage.digits)) > storage.capacity
                                    THEN Len(Increment(storage.digits)) ELSE storage.allocated),
                     !.calls = @ + 1]
    /\ UNCHANGED <<objectVars, threadVars, driver, division, helper>>

InitStorage ==
    /\ class = "storage"
    /\ u = DefaultUnsigned /\ v = DefaultUnsigned /\ s = DefaultSigned /\ t = DefaultSigned
    /\ op = "init" /\ arg = NoArgument /\ err = "none" /\ ret = NoReturn /\ steps = 0
    /\ pre = Objects
    /\ NoThreads /\ NoDriver /\ NoDivision /\ NoHelper
    /\ storage = NewStorage

NextStorage == StoreConstruct \/ StoreAssign \/ StoreAddAssign \/ StoreIncrement

SpecStorage == InitStorage /\ [][NextStorage]_vars

\* ================================================================ claims
\* Helpers of the statements.
ValidSigned(x) == Canonical(x.absolute) /\ (x.sign => Bool(x.absolute))
BothReturned == "first" \in DOMAIN ret /\ "second" \in DOMAIN ret
Failed == err = "invalid_argument" /\ ret = NoReturn
AddedCanonical == op = "u += v" /\ Canonical(pre.u) /\ Canonical(pre.v)

\* The decimal digits of a canonical magnitude: those of the top limb, then
\* DigitsPerLimb digits for each limb below it.
RECURSIVE RefText(_)
RefText(d) ==
    IF Len(d) = 1 THEN Decimal(d[1])
    ELSE RefText(Tail(d)) \o <<DigitChars[(d[1] \div 10) + 1], DigitChars[(d[1] % 10) + 1]>>

\* C1: after any sequence of public UnsignedInteger operations on valid
\* inputs the value has at least one limb and, when it has more than one, a
\* non-zero top limb.  The code breaks this: --u on Base^k borrows out of the
\* top limb and keeps the length.
C1_TopLimbNonZero == TopNonZero(u)

\* C2: after any sequence of public UnsignedInteger operations on valid
\* inputs every stored limb is in [0, Base).  The code breaks this: u += v
\* with u longer than v and a carry out of u's top limb leaves that limb
\* equal to Base.
C2_LimbsBelowBase == LimbsInRange(u)

\* C3: in every reachable state of a SignedInteger a zero magnitude implies
\* a false sign.  The code breaks this for a value built from a floating
\* value in (-1, 0) and for the source of a move.
C3_ZeroIsNotNegative ==
    /\ ~Bool(s.absolute) => ~s.sign
    /\ ~Bool(t.absolute) => ~t.sign

C6_ErrorLeavesObjects == err = "invalid_argument" => Objects = pre

C8_SumText == AddedCanonical => OperatorString(u) = RefText(RefMulAdd(pre.u, <<1>>, pre.v))

\* C8 witness: a sum of a longer a and a shorter b that carried out of a's
\* top limb.
C8_CarriedOutOfLonger ==
    /\ AddedCanonical /\ Len(pre.u) > Len(pre.v)
    /\ Len(RefMulAdd(pre.u, <<1>>, pre.v)) > Len(pre.u)

\* C9: for canonical a and b, (a + b) == (b + a).  The code breaks this: with
\* a longer than b and a carry out of a's top limb, a + b keeps a's length
\* with a top limb equal to Base while b + a grows by a limb.
C9_AdditionCommutes == AddedCanonical => Equal(u, AddAssign(pre.v, pre.u))

\* C10: for canonical a and b the check (a + b) >= b of the subtraction
\* passes and ((a + b) - b) == a.
C10_AddThenSubtract ==
    AddedCanonical =>
        /\ GreaterEq(u, pre.v)
        /\ ~SubOverruns(u, pre.v)
        /\ Equal(SubAssign(u, pre.v), pre.u)

\* C10 witness: the sum kept a's length with a top limb equal to Base, and
\* taking b from it gives a back.
C10_RestoredFromOverfullLimb ==
    /\ AddedCanonical /\ At(u, Len(u) - 1) = Base
    /\ Equal(SubAssign(u, pre.v), pre.u)

\* The running sum of the schoolbook accumulation, computed without
\* wrapping, leaves the range of std::uint64_t at some step.
RECURSIVE AccumulateOverflows(_, _, _, _, _)
AccumulateOverflows(a, other, i, j, carry) ==
    /\ j <= i /\ j < Len(other)
    /\ \/ carry + At(a, i - j) * At(other, j) >= Wrap64
       \/ AccumulateOverflows(a, other, i, j + 1, carry + At(a, i - j) * At(other, j))

RECURSIVE SchoolbookOverflows(_, _, _, _)
SchoolbookOverflows(a, other, carry, i) ==
    /\ i < Len(a) + Len(other) - 1
    /\ \/ AccumulateOverflows(a, other, i, IF i >= Len(a) THEN i - Len(a) + 1 ELSE 0, carry)
       \/ SchoolbookOverflows(a, other,
                              Accumulate(a, other, i, IF i >= Len(a) THEN i - Len(a) + 1 ELSE 0, carry) \div Base,
                              i + 1)

SchoolbookMultiplied ==
    /\ op = "u *= v" /\ Canonical(pre.u) /\ Canonical(pre.v)
    /\ (Len(pre.u) < BruteforceThreshold \/ Len(pre.v) < BruteforceThreshold)

\* C11: for canonical operands of which one is shorter than the threshold,
\* u *= v leaves the canonical limbs of the exact product, the product
\* commutes, a * 0 is the single limb 0, a * 1 is a, and the running sum of
\* the accumulation stays in the range of std::uint64_t.
C11_SchoolbookProduct ==
    SchoolbookMultiplied =>
        /\ err = "none"
        /\ u = RefMulAdd(pre.u, pre.v, <<0>>)
        /\ Canonical(u)
        /\ u = MulAssign(pre.v, pre.u)
        /\ (pre.v = <<0>> => u = <<0>>)
        /\ (pre.u = <<0>> => u = <<0>>)
        /\ (pre.v = <<1>> => u = pre.u)
        /\ ~SchoolbookOverflows(pre.u, pre.v, 0, 0)

\* A factor at least as long as the threshold times a shorter one of several
\* limbs, the carry left after the last column becoming the top limb.
C11_LongTimesShort ==
    /\ SchoolbookMultiplied
    /\ Len(pre.u) >= BruteforceThreshold /\ Len(pre.v) > 1
    /\ Len(u) = Len(pre.u) + Len(pre.v)

\* C12: any value, written as text and read back, compares equal to itself,
\* for UnsignedInteger and for SignedInteger.  The code breaks this for the
\* values C1, C2 and C3 let through: a zero top limb is printed and read back
\* as a shorter value, and a negative zero is printed as "0".
C12_TextRoundTrip ==
    /\ class = "UnsignedInteger" =>
           /\ AllDigits(OperatorString(u))
           /\ Equal(construct(OperatorString(u)), u)
    /\ class = "SignedInteger" =>
           /\ ~SignedAssignString(DefaultSigned, SignedString(s)).thrown
           /\ SignedEqual(ParseSigned(SignedString(s)), s)

\* A digit string without its insignificant leading zeros.
RECURSIVE StripZeros(_)
StripZeros(text) == IF Len(text) > 1 /\ text[1] = "0" THEN StripZeros(Tail(text)) ELSE text

\* What the claim expects of a signed text: the stripped digits, behind a
\* minus sign when the text has one and the digits are not all zero.
ExpectedSignedText(text) ==
    IF text[1] = "-"
    THEN IF StripZeros(Tail(text)) = <<"0">> THEN <<"0">> ELSE <<"-">> \o StripZeros(Tail(text))
    ELSE StripZeros(text)

\* C13: a digit string, read and written back, is the same string without
\* its insignificant leading zeros; a signed string keeps its minus sign
\* exactly when its value is not zero.
C13_PrintParsed ==
    /\ op = "std::string(UnsignedInteger(text))" => err = "none" /\ ret = Returns(StripZeros(arg))
    /\ op = "std::string(SignedInteger(text))" => err = "none" /\ ret = Returns(ExpectedSignedText(arg))

\* A text with leading zeros and a zero limb below the top one.
C13_ZeroLimbPadded ==
    /\ op = "std::string(UnsignedInteger(text))"
    /\ arg = <<"0", "1", "0", "0", "9">>
    /\ ret = Returns(<<"1", "0", "0", "9">>)

\* The limbs of a natural number: repeated remainder and quotient by Base.
RECURSIVE RefFromNatural(_)
RefFromNatural(n) == IF n < Base THEN <<n>> ELSE <<n % Base>> \o RefFromNatural(n \div Base)

\* C14: constructing from a native integer of any type gives the limbs of
\* exactly that value (and its sign), whatever the type's width and also for
\* the most negative value of a signed type.  The code breaks this: the limb
\* is taken from the value cut to 32 bits, Base is cut to the type's width
\* before the division, and std::abs of the most negative int is undefined.
C14_NativeValue ==
    /\ (op = "UnsignedInteger(T)" /\ arg.value >= 0) =>
           err = "none" /\ ret = Returns(RefFromNatural(arg.value))
    /\ op = "SignedInteger(T)" =>
           /\ err = "none"
           /\ ret = Returns(Signed(RefFromNatural(Magnitude(arg.value)), arg.value < 0))

\* The value of a magnitude modulo wrap: the sum of its limbs, each times
\* its power of Base, every term and partial sum reduced.
RECURSIVE PowerModulo(_, _)
PowerModulo(i, wrap) == IF i = 0 THEN 1 % wrap ELSE (PowerModulo(i - 1, wrap) * Base) % wrap

RECURSIVE RefModulo(_, _, _)
RefModulo(d, i, wrap) ==
    IF i = Len(d) THEN 0
    ELSE ((At(d, i) % wrap) * PowerModulo(i, wrap) + RefModulo(d, i + 1, wrap)) % wrap

C16_ComparisonIsOrder ==
    (op = "compare(u, v)" /\ Canonical(pre.u) /\ Canonical(pre.v)) =>
        /\ ret.less = RefLess(pre.u, pre.v)
        /\ ret.greater = RefLess(pre.v, pre.u)
        /\ ret.equal = (pre.u = pre.v)
        /\ Cardinality({r \in {"less", "equal", "greater"} : ret[r]}) = 1
        /\ ret.lessEq = (ret.less \/ ret.equal)
        /\ ret.greaterEq = (ret.greater \/ ret.equal)
        /\ ret.notEqual = ~ret.equal

\* Operands of more than two blocks that agree in every block but the
\* lowest.
C16_DecidedInLowestBlock ==
    /\ op = "compare(u, v)"
    /\ Len(pre.u) = 2 * BlockSize + 1 /\ Len(pre.v) = Len(pre.u)
    /\ \A i \in BlockSize..(Len(pre.u) - 1) : At(pre.u, i) = At(pre.v, i)
    /\ ret.less

\* The order of the integers two SignedInteger objects stand for: limbs are
\* first carried into canonical form, and a zero has no sign.
Normal(d) == RefMulAdd(d, <<1>>, <<0>>)
IsNegative(x) == x.sign /\ Normal(x.absolute) # <<0>>
ValueLess(x, y) ==
    IF IsNegative(x) # IsNegative(y) THEN IsNegative(x)
    ELSE IF IsNegative(x) THEN RefLess(Normal(y.absolute), Normal(x.absolute))
    ELSE RefLess(Normal(x.absolute), Normal(y.absolute))

\* C17: for any two SignedInteger objects the public operations can leave,
\* exactly one of s < t, s == t, s > t holds, each agrees with the order of
\* the integers, and <= and >= are consistent.  The code breaks this: a zero
\* with its sign set (C3) compares less than zero.
C17_SignedComparisonIsOrder ==
    class = "SignedInteger" =>
        /\ SignedLess(s, t) = ValueLess(s, t)
        /\ SignedGreater(s, t) = ValueLess(t, s)
        /\ SignedEqual(s, t) = (~ValueLess(s, t) /\ ~ValueLess(t, s))
        /\ SignedLessEq(s, t) = ~ValueLess(t, s)
        /\ SignedGreaterEq(s, t) = ~ValueLess(s, t)

\* A SignedInteger stands for the difference of two naturals, of which one
\* is zero: its magnitude on the side of its sign.
Positive(x) == IF x.sign THEN <<0>> ELSE x.absolute
Negative(x) == IF x.sign THEN x.absolute ELSE <<0>>
Negated(x) == Signed(x.absolute, ~x.sign)
RefSum(a, b, c) == RefMulAdd(RefMulAdd(a, <<1>>, b), <<1>>, c)

\* z = x + y as integers: the positive parts of one side and the negative
\* parts of the other add up to the same natural.
IsSum(z, x, y) ==
    RefSum(Positive(z), Negative(x), Negative(y)) = RefSum(Negative(z), Positive(x), Positive(y))

\* C18: s += t leaves the exact sum and s -= t the exact difference of the
\* integers s and t stood for, and a zero result has its sign clear.  The
\* code breaks this: a sum that carries out of the top limb of its longer
\* operand holds a limb equal to Base (C2), which the borrow loop of the
\* next subtraction takes for a borrow.
C18_SignedSumExact ==
    /\ op = "s += t" => err = "none" /\ IsSum(s, pre.s, pre.t) /\ (Normal(s.absolute) = <<0>> => ~s.sign)
    /\ op = "s -= t" => err = "none" /\ IsSum(s, pre.s, Negated(pre.t)) /\ (Normal(s.absolute) = <<0>> => ~s.sign)

\* C19: after x = std::move(y) x holds what y held and y is zero: an
\* UnsignedInteger y is the single limb 0 and a SignedInteger y compares
\* equal to SignedInteger().  The code breaks this: the moved-from
\* SignedInteger keeps its sign.
C19_MovedFromIsZero ==
    /\ op = "u = std::move(v)" => u = pre.v /\ v = DefaultUnsigned
    /\ op = "s = std::move(t)" => s = pre.t /\ SignedEqual(t, DefaultSigned)

\* C20: a multiplication of two magnitudes that takes the transform path
\* (neither shorter than BruteforceThreshold) ends with invalid-argument
\* exactly when their lengths sum to more than TransformLimit, and is
\* performed otherwise.  The code breaks this: it holds each length against
\* TransformLimit on its own, so two operands within the limit whose lengths
\* sum past it are multiplied.
C20_TransformLimitSignalled ==
    (op = "u *= v" /\ Len(pre.u) >= BruteforceThreshold /\ Len(pre.v) >= BruteforceThreshold) =>
        ((err = "invalid_argument") = (Len(pre.u) + Len(pre.v) > TransformLimit))

\* Base^p as a magnitude.
PowerOfBase(p) == Zeros(p) \o <<1>>

\* Whether every level of computeInverse(y, p) calls itself with a smaller
\* precision, down to the level that divides.
RECURSIVE InverseDescends(_, _)
InverseDescends(y, precisionBits) ==
    IF Len(y) < BruteforceThreshold \/ precisionBits < Len(y) + BruteforceThreshold THEN TRUE
    ELSE LET halfPrecision == U32(precisionBits - Len(y) + 5) \div 2
             shiftBack == IF halfPrecision > Len(y) THEN 0 ELSE Len(y) - halfPrecision
             truncated == rightShift(y, shiftBack)
         IN /\ halfPrecision + Len(truncated) < precisionBits
            /\ InverseDescends(truncated, halfPrecision + Len(truncated))

InverseReturned == op = "u.computeInverse(p)"

\* C21: for a non-zero y and p >= Len(y) + BruteforceThreshold the
\* reciprocal R = computeInverse(y, p) is returned with
\* R * y <= Base^p < (R + 2) * y, and every level of the recursion calls the
\* next with a smaller precision until the schoolbook division is reached.
C21_ReciprocalWithinOne ==
    InverseReturned =>
        /\ err = "none"
        /\ InverseDescends(pre.u, arg)
        /\ ~RefLess(PowerOfBase(arg), RefMulAdd(ret.first, pre.u, <<0>>))
        /\ RefLess(PowerOfBase(arg), RefMulAdd(ret.first, pre.u, RefMulAdd(<<2>>, pre.u, <<0>>)))

\* A reciprocal refined from a shorter one and one below the floor of
\* Base^p / y: (R + 1) * y <= Base^p.
C21_RefinedOneLow ==
    /\ InverseReturned /\ err = "none"
    /\ Len(pre.u) >= BruteforceThreshold
    /\ ~RefLess(PowerOfBase(arg), RefMulAdd(ret.first, pre.u, pre.u))

C23_ScratchPerThread ==
    /\ access.thread # 0 => access.slot = access.thread
    /\ \A k \in DOMAIN thread :
           /\ (thread[k].pc = "ready" /\ thread[k].done > 0) => thread[k].out = thread[k].want
           /\ thread[k].pointer # 0 => scratch[thread[k].pointer].result = thread[k].seen

\* Thread 1 holds a borrowed pointer and is in the middle of a transform
\* multiplication while thread 2 is in the middle of a conversion.
C23_Interleaved ==
    /\ class = "threads"
    /\ thread[1].pointer # 0 /\ thread[1].pc = "multiply:carry"
    /\ thread[2].pc = "convert:return"

\* The lines read so far that are not blank, in the order read.
NotBlank(line) == Len(trim(line)) > 0
Answerable(read) == SelectSeq(read, NotBlank)
WordsOf(line) == Words(trim(line), <<>>, <<>>)
DriverRun == class = "driver"

\* C24: the driver writes exactly one response line, beginning with OK or
\* EXC, for every input line that is not blank, in input order, and none for
\* a blank line; an error on one line never keeps later lines from being
\* processed; and the process exits with code 0 at the end of input.
C24_OneResponsePerLine ==
    DriverRun =>
        /\ driver.status \in {"running", "exited"}
        /\ driver.code = 0
        /\ Len(driver.output) = Len(Answerable(driver.read))
        /\ \A i \in 1..Len(driver.output) :
               /\ driver.output[i].tag \in {"OK", "EXC"}
               /\ driver.output[i] = ResponseLine(LineResult(WordsOf(Answerable(driver.read)[i])))

\* The ops of the protocol.
ProtocolOps == TwoOperandOps \cup {WordToStr, WordToU64, WordToS64, WordToDouble}

\* C25: for type U and for type S alike every op of the protocol is
\* recognised: `EXC unknown op` answers only an op outside the protocol's
\* ten, and `EXC unknown type` only a type other than U and S.
C25_OpsRecognised ==
    (DriverRun /\ Len(driver.output) = Len(Answerable(driver.read))) =>
        \A i \in 1..Len(driver.output) :
            /\ driver.output[i] = ExcLine("unknown op")
                   => Word(WordsOf(Answerable(driver.read)[i]), 2) \notin ProtocolOps
            /\ driver.output[i] = ExcLine("unknown type")
                   => Word(WordsOf(Answerable(driver.read)[i]), 1) \notin {WordU, WordS}

\* The line a step of the driver reads, and what the step writes for it.
ReadsLine == DriverRun /\ Len(driver'.read) = Len(driver.read) + 1
LineRead == driver'.read[Len(driver'.read)]
Writes(response) == driver'.output = Append(driver.output, response)
LacksA(words) == Len(words) = 2
LacksB(words) == Len(words) = 3 /\ words[2] \in TwoOperandOps

\* C26 as stated: a line that lacks an operand its op requires (a for any
\* op, b for add, sub, mul, div, mod and cmp) is answered with exactly
\* `EXC missing operand`.
C26_MissingOperand ==
    [][(ReadsLine /\ (LacksA(WordsOf(LineRead)) \/ LacksB(WordsOf(LineRead))))
           => Writes(ExcLine("missing operand"))]_vars

\* C26 amended: a line that gives a but lacks the b its op (add, sub, mul,
\* div, mod, cmp) requires is answered with exactly `EXC missing operand`,
\* whatever its type; a line that lacks a is answered with exactly
\* `EXC invalid input`.
C26_MissingSecondOperand ==
    [][ReadsLine =>
           /\ LacksB(WordsOf(LineRead)) => Writes(ExcLine("missing operand"))
           /\ LacksA(WordsOf(LineRead)) => Writes(ExcLine("invalid input"))]_vars

\* A line lacking b was answered after a line of an unknown type lacking b.
C26_SecondOperandMissed ==
    /\ DriverRun /\ Len(driver.read) = 2 /\ Len(driver.output) = 2
    /\ LacksB(WordsOf(driver.read[1])) /\ Word(WordsOf(driver.read[1]), 1) \notin {WordU, WordS}
    /\ LacksB(WordsOf(driver.read[2])) /\ Word(WordsOf(driver.read[2]), 1) = WordS
    /\ driver.output[2] = ExcLine("missing operand")

\* What the iterations of a division have kept to: no subtraction took the
\* remainder below zero or borrowed past the limb above the divisor's, the
\* word past the remainder's array was never written, and one final
\* subtraction left every window less than the divisor.
DivisionInBounds ==
    class = "division" =>
        /\ ~division.negative
        /\ ~division.unreduced
        /\ division.pc \in {"estimate", "final", "next"} => At(division.rem, Len(u)) = 0
        /\ division.pc = "next" => division.finals <= 1

\* The measure of a call's progress: a step leaves the start, or ends the
\* call, or on the schoolbook path moves to a lower position, or at the same
\* position from the estimate loop to the comparison and on, or stays in the
\* estimate loop with a smaller remainder; on the Newton path it stays in
\* the first loop with a smaller quotient or moves to the second, or stays
\* in the second with a smaller remainder.  No measure decreases for ever.
PhaseRank(pc) == IF pc = "estimate" THEN 2 ELSE IF pc = "final" THEN 1 ELSE 0
SchoolbookPcs == {"estimate", "final", "next"}
DivisionProgresses ==
    \/ division.pc = "start" /\ division'.pc \in {"estimate", "down", "done"}
    \/ division.pc \in {"next", "up"} /\ division'.pc = "done"
    \/ /\ division.pc \in SchoolbookPcs /\ division'.pc \in SchoolbookPcs
       /\ \/ division'.pos < division.pos
          \/ /\ division'.pos = division.pos
             /\ PhaseRank(division'.pc) < PhaseRank(division.pc)
          \/ /\ division'.pos = division.pos
             /\ division.pc = "estimate" /\ division'.pc = "estimate"
             /\ RefLess(division'.rem, division.rem)
    \/ /\ division.pc = "down"
       /\ \/ division'.pc = "up"
          \/ division'.pc = "down" /\ RefLess(Trim(division'.quotient), Trim(division.quotient))
    \/ /\ division.pc = "up" /\ division'.pc = "up"
       /\ RefLess(Trim(division'.remainder), Trim(division.remainder))

\* An iteration of one of the loops, or the step into or out of them.
DivideSteps == DStart \/ DEstimate \/ DFinal \/ DNext \/ DCorrectDown \/ DCorrectUp

\* C27: unsigned division of x by y # 0 terminates.  On the schoolbook path
\* every partial-quotient estimate is at most the true partial quotient (the
\* running remainder never goes negative, the borrow never leaves the window
\* of m + 1 limbs), so the estimate loop reaches 0 and at most one final
\* subtraction of y is needed per position; on the Newton path the loops
\* `while (q * y > x) --q` and `while (r >= y) r -= y, ++q` stop after
\* finitely many iterations: every iteration lowers a measure that is
\* bounded below.
C27_DivisionTerminates == []DivisionInBounds /\ [][DivideSteps => DivisionProgresses]_vars

\* C27 witness: a schoolbook division ended whose last position took two
\* rounds of the estimate loop and the final subtraction.
C27_EstimatedTwiceThenSubtracted ==
    /\ Dividing("done") /\ Len(division.quot) > 1
    /\ division.rounds >= 2 /\ division.finals = 1
    /\ [first |-> division.quotient, second |-> division.remainder] = divisionAndModulus(u, v)

\* C28: over any sequence of resize(L) calls with L a power of two, the
\* twiddle cache is reallocated only when L exceeds twice the current cache
\* length; after the call the cache holds at least L / 2 entries, so every
\* twiddle index a length-L transform or pointwise multiply reads is in
\* range; the cache length never decreases; and the entries at indices
\* below the previous length are unchanged.
C28_TwiddleCache ==
    (class = "helper" /\ helper.requested > 0) =>
        /\ helper.reallocated => helper.requested > 2 * helper.previous.length
        /\ ~helper.reallocated => helper.twiddleFactors = helper.previous.twiddleFactors
        /\ Len(helper.twiddleFactors) = helper.length
        /\ 2 * helper.length >= helper.requested
        /\ helper.reads \subseteq 0..(helper.length - 1)
        /\ helper.length >= helper.previous.length
        /\ \A i \in 1..helper.previous.length :
               helper.twiddleFactors[i] = helper.previous.twiddleFactors[i]

\* C28 witness: a second resize grew a cache of several entries, and the
\* transforms of the new length have read its last entry.
C28_GrownAndRead ==
    /\ HelperAt("idle") /\ helper.calls >= 2 /\ helper.reallocated
    /\ helper.previous.length >= 2
    /\ helper.length - 1 \in helper.reads

\* C29: self-aliased in-place addition is correct: after x += x the value of
\* x is twice its previous value, also when a limb-level carry occurs, and
\* likewise after s += s for a SignedInteger s.
C29_SelfAddDoubles ==
    /\ op = "u += u" => Value(u) = 2 * Value(pre.u)
    /\ op = "s += s" => Value(s.absolute) = 2 * Value(pre.s.absolute) /\ s.sign = pre.s.sign

\* C30: in every reachable state of an UnsignedInteger, 1 <= length <=
\* capacity, capacity is the size of the allocated limb array, and every
\* limb write of a constructor, assignment, resize or arithmetic operator
\* has an index in [0, capacity), construction and assignment from every
\* native integer type and bool included.
C30_WithinCapacity ==
    class = "storage" =>
        /\ 1 <= Len(storage.digits) /\ Len(storage.digits) <= storage.capacity
        /\ storage.capacity = storage.allocated
        /\ ~storage.outside

====
